---- MODULE Spec2Model ----
(***************************************************************************)
(* Model of the order execution engine of trading-engine/cpp/execution     *)
(* (order_engine.h, order_engine.cpp): Price, OrderBook, Order, the        *)
(* ExecutionEngine's submit/cancel paths, its lifecycle (start/stop), the  *)
(* worker pool and the market-data simulator.                              *)
(*                                                                         *)
(* Real-valued quantities (sizes, order quantities) are modelled by        *)
(* integers.  A real-valued request price is modelled by an integer count  *)
(* of tenths of a tick, so that the truncating conversion Price(double)    *)
(* is a real computation.                                                  *)
(***************************************************************************)
EXTENDS Integers, Sequences, FiniteSets, TLC

\* ------------------------------------------------------------------------
\* Program constants
\* ------------------------------------------------------------------------

\* order_engine.h: static constexpr int64_t TICK_PRECISION = 100000
TICK_PRECISION == 100000

\* order_engine.h: constexpr size_t ORDER_BOOK_DEPTH = 20
ORDER_BOOK_DEPTH == 20

\* order_engine.h: Config::max_position_size = 1000000.0
max_position_size == 1000000

\* order_engine.h: Config::enable_risk_checks = true
enable_risk_checks == TRUE

\* order_engine.h: Config::enable_simulation = true
enable_simulation == TRUE

\* ------------------------------------------------------------------------
\* Bounds of the model
\* ------------------------------------------------------------------------

\* Number of Order objects admitted (inserted into active_orders_) in a run.
MaxOrders == 1
\* Latency samples retained by PerformanceMetrics: the code keeps the last
\* 10000, the model the last MaxSamples.
MaxSamples == 2
\* Entries of a MemoryPool (the engine's pools have 10000 and 100000).
PoolSize == 3
\* Calls of record_order_processed in a run of the metrics object alone.
MaxRecords == 3
\* Orders admitted in a run that counts processed orders or reuses ids.
MaxCounted == 3

\* Number of worker threads spawned by start() (Config::worker_thread_count,
\* a configuration value; its default is 4).
worker_thread_count == 2

\* Number of start()/stop() calls made in a run.
MaxLifecycleCalls == 2

\* ------------------------------------------------------------------------
\* Value domains
\* ------------------------------------------------------------------------

Levels == 0 .. (ORDER_BOOK_DEPTH - 1)

\* Symbols with an order book after initialize(); books of distinct symbols
\* share no state, so one seed symbol stands for the five.
SeedSymbols == {"AAPL"}

OrderIds == {"a", "b"}

NoThread == "none"

Clients == {"c1", "c2"}

Terminal == {"FILLED", "CANCELLED", "REJECTED", "EXPIRED"}

\* Scale of a modelled real price: tenths of a tick.
RealScale == 10 * TICK_PRECISION

\* C++ integer division and double-to-int64 conversion: truncation toward 0.
TruncDiv(a, b) ==
    IF a >= 0 THEN a \div b ELSE -((-a) \div b)

\* A variant of std::min that always yields its first argument; C12 tells it
\* from Min.
MinAsFirst(a, b) == a

Min(a, b) == IF a <= b THEN a ELSE b

\* Price::Price(double value): ticks = (int64_t)(value * TICK_PRECISION)
PriceOfReal(v) == TruncDiv(v, RealScale \div TICK_PRECISION)

\* Price::to_double(): ticks / TICK_PRECISION, as a modelled real
PriceToReal(ticks) == ticks * (RealScale \div TICK_PRECISION)

EmptyLevel == [price |-> 0, size |-> 0]

\* OrderBook::OrderBook: every level is (0, 0.0)
EmptyBook == [bids |-> [l \in Levels |-> EmptyLevel],
              asks |-> [l \in Levels |-> EmptyLevel]]

\* ------------------------------------------------------------------------
\* OrderBookLevel, OrderBook
\* ------------------------------------------------------------------------

\* A variant of is_valid that does not look at the price; C11 tells it
\* from is_valid.
is_valid_size_only(level) == level.size > 0

\* OrderBookLevel::is_valid
is_valid(level) == level.price > 0 /\ level.size > 0

\* OrderBook::update_bid: a no-op when level >= ORDER_BOOK_DEPTH
update_bid(book, price, size, level) ==
    IF level >= ORDER_BOOK_DEPTH THEN book
    ELSE [book EXCEPT !.bids[level] = [price |-> price, size |-> size]]

\* OrderBook::update_ask
update_ask(book, price, size, level) ==
    IF level >= ORDER_BOOK_DEPTH THEN book
    ELSE [book EXCEPT !.asks[level] = [price |-> price, size |-> size]]

get_best_bid(book) == book.bids[0].price

get_best_ask(book) == book.asks[0].price

\* A variant of the mid price that rounds half a tick up; C10 tells it
\* from MidOf.
MidOfRoundedUp(bid, ask) == TruncDiv(bid + ask + 1, 2)

\* OrderBook::get_mid_price, from the two prices it has read
MidOf(bid, ask) == TruncDiv(bid + ask, 2)

get_mid_price(book) == MidOf(get_best_bid(book), get_best_ask(book))

\* The side of the book an order of `side` trades against.
Opposing(book, side) == IF side = "BUY" THEN book.asks ELSE book.bids

\* A price test that also ends the walk at a level priced at the limit.
BeyondLimitInclusive(side, price, limit_price) ==
    IF side = "BUY" THEN price >= limit_price ELSE price <= limit_price

\* The price test of has_sufficient_liquidity: a level beyond the limit
\* ends the walk.
BeyondLimit(side, price, limit_price) ==
    IF side = "BUY" THEN price > limit_price ELSE price < limit_price

\* The loop of has_sufficient_liquidity from level i with `available`
\* accumulated so far.
RECURSIVE LiquidityWalk(_, _, _, _, _, _)
LiquidityWalk(levels, side, quantity, limit_price, i, available) ==
    IF i >= ORDER_BOOK_DEPTH THEN FALSE
    ELSE IF ~is_valid(levels[i]) THEN FALSE
    ELSE IF BeyondLimit(side, levels[i].price, limit_price) THEN FALSE
    ELSE IF available + levels[i].size >= quantity THEN TRUE
    ELSE LiquidityWalk(levels, side, quantity, limit_price, i + 1,
                       available + levels[i].size)

\* OrderBook::has_sufficient_liquidity
has_sufficient_liquidity(book, side, quantity, limit_price) ==
    LiquidityWalk(Opposing(book, side), side, quantity, limit_price, 0, 0)

\* The loop of get_fills_for_market_order from level i.
RECURSIVE FillWalk(_, _, _)
FillWalk(levels, i, remaining_quantity) ==
    IF i >= ORDER_BOOK_DEPTH THEN << >>
    ELSE IF ~is_valid(levels[i]) \/ remaining_quantity <= 0 THEN << >>
    ELSE LET fill_quantity == Min(remaining_quantity, levels[i].size)
         IN  << <<levels[i].price, fill_quantity>> >>
             \o FillWalk(levels, i + 1, remaining_quantity - fill_quantity)

\* OrderBook::get_fills_for_market_order: a sequence of <<price, size>>
get_fills_for_market_order(book, side, quantity) ==
    FillWalk(Opposing(book, side), 0, quantity)

\* ------------------------------------------------------------------------
\* Order
\* ------------------------------------------------------------------------

\* Order::Order(const COrderRequest&): status PENDING, nothing filled.
\* The request's real prices are converted to ticks on entry.
NewOrder(req) ==
    [order_id   |-> req.order_id,
     symbol     |-> req.symbol,
     type       |-> req.order_type,
     side       |-> req.side,
     quantity   |-> req.quantity,
     price      |-> PriceOfReal(req.price),
     stop_price |-> PriceOfReal(req.stop_price),
     status     |-> "PENDING",
     filled_quantity |-> 0,
     average_fill_price_ticks |-> 0,
     fills      |-> << >>]

\* Order::validate
validate(o) ==
    /\ ~(o.order_id = "" \/ o.symbol = "")
    /\ ~(o.quantity <= 0)
    /\ ~(o.type = "LIMIT" /\ o.price <= 0)
    /\ ~(o.type = "STOP" /\ o.stop_price <= 0)

\* A variant of is_active that leaves out PARTIALLY_FILLED; C8 tells it
\* from is_active.
is_active_submitted_only(o) == o.status = "SUBMITTED"

\* Order::is_active
is_active(o) == o.status = "SUBMITTED" \/ o.status = "PARTIALLY_FILLED"

\* The status add_fill stores once new_filled is known.
FillStatus(new_filled, quantity) ==
    IF new_filled >= quantity THEN "FILLED" ELSE "PARTIALLY_FILLED"

\* add_fill with the plain mean of the old average and the new price in
\* place of the size-weighted one.
add_fill_unweighted(o, price, quantity) ==
    [o EXCEPT !.fills = Append(@, <<price, quantity>>),
              !.filled_quantity = @ + quantity,
              !.average_fill_price_ticks = TruncDiv(@ + price, 2),
              !.status = FillStatus(o.filled_quantity + quantity,
                                    o.quantity)]

\* Order::add_fill
add_fill(o, price, quantity) ==
    LET old_filled == o.filled_quantity
        new_filled == old_filled + quantity
        old_avg_ticks == o.average_fill_price_ticks
        new_avg_ticks ==
            TruncDiv(old_avg_ticks * old_filled + price * quantity, new_filled)
    IN  [o EXCEPT !.fills = Append(@, <<price, quantity>>),
                  !.filled_quantity = new_filled,
                  !.average_fill_price_ticks = new_avg_ticks,
                  !.status = FillStatus(new_filled, o.quantity)]

\* Order::set_status
set_status(o, status) == [o EXCEPT !.status = status]

\* ------------------------------------------------------------------------
\* State
\* ------------------------------------------------------------------------

VARIABLES
    \* ExecutionEngine
    initialized,        \* initialized_
    order_books,        \* order_books_: symbol -> book
    orders,             \* every Order object created for an admitted request,
                        \* by creation order; a shared_ptr<Order> is an index
    active_orders,      \* active_orders_: order id -> index into orders, 0 = absent
    order_queue,        \* order_queue_: sequence of indices into orders
    order_mutex,        \* holder of order_mutex_
    fill_callback,      \* whether fill_callback_ is set
    status_callback,    \* whether status_callback_ is set
    \* Client threads inside submit_order / cancel_order
    pc,                 \* position of each client thread
    req,                \* the request of the call in progress
    cur,                \* the Order the call works on (index into orders)
    pend,               \* market order: fills not yet added to the order
    seen,               \* limit/stop order: the price read from the book
    resp,               \* exec_result and the COrderResponse of the call
    \* The callback invoked by the last step, if any
    cbEvent,
    \* Lifecycle
    running,            \* running_
    healthy,            \* healthy_
    engine_mutex,       \* holder of engine_mutex_
    worker_threads,     \* worker_threads_: sequence of worker thread ids
    joined,             \* worker threads that have been joined (not joinable)
    wpc,                \* position of each worker thread in process_order_queue
    sim,                \* the simulator thread: position, joinable, local price
    lpc,                \* position of each thread inside start() / stop()
    lvar,               \* locals of start() / stop(): the call, loop index, range end
    calls,              \* number of start()/stop() calls begun
    crashed,            \* std::terminate was called
    \* Metrics, the C API
    metrics,            \* metrics_: the counters of PerformanceMetrics
    g_engine,           \* whether g_engine holds an engine
    ret,                \* the call that returned last without a thread record
    order_pool,         \* a MemoryPool: its free list available_ and mutex_
    holding             \* the pool entries each caller has acquired
                        \* of its own (initialize, engine_*), and its value

engineVars == <<initialized, order_books>>
orderVars  == <<orders, active_orders, order_queue, order_mutex>>
cbVars     == <<fill_callback, status_callback>>
clientVars == <<pc, req, cur, pend, seen, resp>>

lifeVars   == <<running, healthy, engine_mutex, worker_threads, joined, sim,
                lpc, lvar, calls, crashed>>

apiVars    == <<metrics, g_engine, ret>>
poolVars   == <<order_pool, holding>>

vars == <<engineVars, orderVars, cbVars, apiVars, poolVars, clientVars,
          cbEvent, lifeVars, wpc>>

NoReq   == [op |-> "none"]
NoResp  == [result |-> "none"]
NoEvent == [kind |-> "none"]
NoRet   == [op |-> "none", result |-> "none"]

\* PerformanceMetrics::PerformanceMetrics: every counter zero, no latency
\* sample. latency_samples is the number of samples held; total_volume is
\* in units of 1/RealScale.
\* latency_samples is the sample vector, oldest first; latency_mutex is the
\* thread holding latency_mutex_.
NoMetrics ==
    [total_orders_processed |-> 0, successful_executions |-> 0,
     failed_executions |-> 0, total_latency_micros |-> 0,
     latency_samples |-> << >>, latency_mutex |-> NoThread,
     total_volume |-> 0]

\* MemoryPool::MemoryPool(size): every entry of pool_ is pushed on
\* available_ in order; entries are named 1 .. PoolSize.
NewPool ==
    [available |-> [i \in 1 .. PoolSize |-> i], mutex |-> NoThread]

\* Threads that call start() and stop().
LThreads == {"l1", "l2"}

\* Identities of the worker threads start() may spawn in a run, in spawn
\* order.
WorkerNames ==
    <<"w1", "w2", "w3", "w4", "w5", "w6", "w7", "w8", "w9", "w10", "w11",
      "w12", "w13", "w14", "w15", "w16">>

Workers == {WorkerNames[i] : i \in 1 .. (worker_thread_count * MaxLifecycleCalls)}

NoCall == [op |-> "none", i |-> 0, end |-> 0, result |-> "none"]

\* Workers blocked inside order_cv_.wait
Waiting == {w \in Workers : wpc[w] = "waiting"}

\* Threads of the engine that have been spawned and have not returned.
LiveWorkers == {w \in Workers : wpc[w] \notin {"unborn", "exited"}}

SimLive == sim.pc \notin {"unborn", "exited"}

\* The response record as submit_order initialises it (status SUBMITTED).
InitialResponse ==
    [result |-> "SUCCESS", status |-> "SUBMITTED",
     executed_quantity |-> 0, average_price |-> 0]

\* ExecutionEngine::ExecutionEngine: no books, nothing initialized, no thread.
Init ==
    /\ initialized = FALSE
    /\ order_books = [s \in {} |-> EmptyBook]
    /\ orders = << >>
    /\ active_orders = [i \in OrderIds |-> 0]
    /\ order_queue = << >>
    /\ order_mutex = NoThread
    /\ fill_callback = FALSE
    /\ status_callback = FALSE
    /\ pc = [t \in Clients |-> "idle"]
    /\ req = [t \in Clients |-> NoReq]
    /\ cur = [t \in Clients |-> 0]
    /\ pend = [t \in Clients |-> << >>]
    /\ seen = [t \in Clients |-> 0]
    /\ resp = [t \in Clients |-> NoResp]
    /\ cbEvent = NoEvent
    /\ running = FALSE
    /\ healthy = FALSE
    /\ engine_mutex = NoThread
    /\ worker_threads = << >>
    /\ joined = {}
    /\ wpc = [w \in Workers |-> "unborn"]
    /\ sim = [pc |-> "unborn", joinable |-> FALSE, price |-> 0, cycles |-> 0,
              ask_from |-> -1]
    /\ lpc = [t \in LThreads |-> "idle"]
    /\ lvar = [t \in LThreads |-> NoCall]
    /\ calls = 0
    /\ crashed = FALSE
    /\ metrics = NoMetrics
    /\ g_engine = FALSE
    /\ ret = NoRet
    /\ order_pool = NewPool
    /\ holding = [t \in Clients |-> {}]

\* ------------------------------------------------------------------------
\* ExecutionEngine::initialize
\* ------------------------------------------------------------------------

\* The body of initialize: every call stores a fresh OrderBook under each
\* seed symbol, under the engine-wide guard, and returns SUCCESS.
StoreBooks ==
    /\ engine_mutex = NoThread
    /\ order_books' = [s \in SeedSymbols |-> EmptyBook]
    /\ initialized' = TRUE
    /\ ret' = [op |-> "initialize", result |-> "SUCCESS"]
    /\ cbEvent' = NoEvent
    /\ UNCHANGED <<orderVars, cbVars, metrics, clientVars, lifeVars, wpc, poolVars>>

\* initialize called on the engine object.
initialize == StoreBooks /\ UNCHANGED g_engine

\* ExecutionEngine::register_fill_callback with a non-empty function
register_fill_callback ==
    /\ ~fill_callback
    /\ fill_callback' = TRUE
    /\ cbEvent' = NoEvent
    /\ UNCHANGED <<engineVars, orderVars, status_callback, apiVars,
                   clientVars, lifeVars, wpc, poolVars>>

\* ExecutionEngine::register_status_callback with a non-empty function
register_status_callback ==
    /\ ~status_callback
    /\ status_callback' = TRUE
    /\ cbEvent' = NoEvent
    /\ UNCHANGED <<engineVars, orderVars, fill_callback, apiVars,
                   clientVars, lifeVars, wpc, poolVars>>

\* ------------------------------------------------------------------------
\* External feed: OrderBook::update_bid / update_ask on an engine book
\* ------------------------------------------------------------------------

FeedWrite(symbol, side, price, size, level) ==
    /\ symbol \in DOMAIN order_books
    /\ order_books' =
         [order_books EXCEPT ![symbol] =
            IF side = "BID" THEN update_bid(@, price, size, level)
                            ELSE update_ask(@, price, size, level)]
    /\ order_books' # order_books
    /\ cbEvent' = NoEvent
    /\ UNCHANGED <<initialized, orderVars, cbVars, apiVars, clientVars, lifeVars, wpc,
                   poolVars>>

\* ------------------------------------------------------------------------
\* ExecutionEngine::submit_order
\* ------------------------------------------------------------------------

\* The risk check with >= in place of >.
RiskRejectedAtLimit(o) == enable_risk_checks /\ o.quantity >= max_position_size

\* The risk check of submit_order.
RiskRejected(o) == enable_risk_checks /\ o.quantity > max_position_size

\* Validation failure that is counted as a failed execution.
SubmitInvalidCounted(t, r) ==
    /\ pc[t] = "idle"
    /\ ~validate(NewOrder(r))
    /\ pc' = [pc EXCEPT ![t] = "done"]
    /\ req' = [req EXCEPT ![t] = r]
    /\ resp' = [resp EXCEPT ![t] =
                  [InitialResponse EXCEPT !.result = "INVALID_ORDER"]]
    /\ metrics' = [metrics EXCEPT !.total_orders_processed = @ + 1,
                                  !.failed_executions = @ + 1,
                                  !.total_latency_micros = @ + 1,
                                  !.latency_samples = Append(@, 1)]
    /\ cbEvent' = NoEvent
    /\ UNCHANGED <<engineVars, orderVars, cbVars, g_engine, ret, cur, pend,
                   seen, lifeVars, wpc, poolVars>>

\* Validation failure: only response.result is set; the early return leaves
\* the rest of the response as initialised.
SubmitInvalid(t, r) ==
    /\ pc[t] = "idle"
    /\ ~validate(NewOrder(r))
    /\ pc' = [pc EXCEPT ![t] = "done"]
    /\ req' = [req EXCEPT ![t] = r]
    /\ resp' = [resp EXCEPT ![t] =
                  [InitialResponse EXCEPT !.result = "INVALID_ORDER"]]
    /\ cbEvent' = NoEvent
    /\ UNCHANGED <<engineVars, orderVars, cbVars, apiVars, cur, pend, seen, lifeVars, wpc,
                   poolVars>>

\* Risk rejection: the same early return with RISK_LIMIT_EXCEEDED.
SubmitRisk(t, r) ==
    /\ pc[t] = "idle"
    /\ validate(NewOrder(r))
    /\ RiskRejected(NewOrder(r))
    /\ pc' = [pc EXCEPT ![t] = "done"]
    /\ req' = [req EXCEPT ![t] = r]
    /\ resp' = [resp EXCEPT ![t] =
                  [InitialResponse EXCEPT !.result = "RISK_LIMIT_EXCEEDED"]]
    /\ cbEvent' = NoEvent
    /\ UNCHANGED <<engineVars, orderVars, cbVars, apiVars, cur, pend, seen, lifeVars, wpc,
                   poolVars>>

\* order_cv_.notify_one: one of the waiting workers, if any, is woken.
NotifyOne ==
    \E w \in (IF Waiting = {} THEN {NoThread} ELSE Waiting) :
        wpc' = IF w = NoThread THEN wpc ELSE [wpc EXCEPT ![w] = "woken"]

\* order_cv_.notify_all
NotifyAll ==
    wpc' = [w \in Workers |-> IF wpc[w] = "waiting" THEN "woken" ELSE wpc[w]]

\* Admission: under order_mutex_, active_orders_[id] = order and the order
\* is pushed on the work queue; then notify_one.
SubmitAdmit(t, r) ==
    /\ pc[t] = "idle"
    /\ validate(NewOrder(r))
    /\ ~RiskRejected(NewOrder(r))
    /\ order_mutex = NoThread
    /\ orders' = Append(orders, NewOrder(r))
    /\ active_orders' = [active_orders EXCEPT ![r.order_id] = Len(orders) + 1]
    /\ order_queue' = Append(order_queue, Len(orders) + 1)
    /\ NotifyOne
    /\ pc' = [pc EXCEPT ![t] = "s_exec"]
    /\ req' = [req EXCEPT ![t] = r]
    /\ cur' = [cur EXCEPT ![t] = Len(orders) + 1]
    /\ resp' = [resp EXCEPT ![t] = InitialResponse]
    /\ cbEvent' = NoEvent
    /\ UNCHANGED <<engineVars, order_mutex, cbVars, apiVars, pend, seen, lifeVars,
                   poolVars>>

\* A fill callback that reports the order's filled quantity so far.
FillEventCumulative(t, o, fill) ==
    IF fill_callback
    THEN [kind |-> "fill", thread |-> t, order_id |-> o.order_id,
          price |-> PriceToReal(fill[1]),
          quantity |-> o.filled_quantity + fill[2],
          order_mutex_held |-> (order_mutex = t)]
    ELSE NoEvent

\* The invocation of fill_callback_ for one fill, when it is set.
FillEvent(t, o, fill) ==
    IF fill_callback
    THEN [kind |-> "fill", thread |-> t, order_id |-> o.order_id,
          price |-> PriceToReal(fill[1]), quantity |-> fill[2],
          order_mutex_held |-> (order_mutex = t)]
    ELSE NoEvent

\* One iteration of the fill loop of execute_market_order: add_fill, then
\* the fill callback.
ProcessFill(t, fills) ==
    /\ orders' = [orders EXCEPT ![cur[t]] =
                    add_fill(@, Head(fills)[1], Head(fills)[2])]
    /\ cbEvent' = FillEvent(t, orders[cur[t]], Head(fills))
    /\ pend' = [pend EXCEPT ![t] = Tail(fills)]
    /\ pc' = [pc EXCEPT ![t] = IF Tail(fills) = << >> THEN "s_resp" ELSE "s_fill"]

\* Leave the matching routine with exec_result and no change to the order.
ExecReturn(t, result) ==
    /\ resp' = [resp EXCEPT ![t].result = result]
    /\ pc' = [pc EXCEPT ![t] = "s_resp"]
    /\ cbEvent' = NoEvent
    /\ UNCHANGED <<engineVars, orderVars, cbVars, apiVars, req, cur, pend, seen, lifeVars, wpc,
                   poolVars>>

\* The default branch of the dispatch: a type other than MARKET, LIMIT, STOP.
ExecOther(t) ==
    /\ pc[t] = "s_exec"
    /\ orders[cur[t]].type \notin {"MARKET", "LIMIT", "STOP"}
    /\ ExecReturn(t, "INVALID_ORDER")

\* A missing book reported as INSUFFICIENT_LIQUIDITY.
ExecNoBookAsLiquidity(t) ==
    /\ pc[t] = "s_exec"
    /\ orders[cur[t]].type \in {"MARKET", "LIMIT", "STOP"}
    /\ orders[cur[t]].symbol \notin DOMAIN order_books
    /\ ExecReturn(t, "INSUFFICIENT_LIQUIDITY")

\* execute_market_order / execute_limit_order / execute_stop_order: the
\* symbol has no book.
ExecNoBook(t) ==
    /\ pc[t] = "s_exec"
    /\ orders[cur[t]].type \in {"MARKET", "LIMIT", "STOP"}
    /\ orders[cur[t]].symbol \notin DOMAIN order_books
    /\ ExecReturn(t, "INVALID_ORDER")

\* execute_market_order: the book returns no fill.
ExecMarketEmpty(t) ==
    /\ pc[t] = "s_exec"
    /\ orders[cur[t]].type = "MARKET"
    /\ orders[cur[t]].symbol \in DOMAIN order_books
    /\ get_fills_for_market_order(order_books[orders[cur[t]].symbol],
                                  orders[cur[t]].side,
                                  orders[cur[t]].quantity) = << >>
    /\ ExecReturn(t, "INSUFFICIENT_LIQUIDITY")

\* A market execution that takes the first fill's size out of level 0 of
\* the opposing side.
ExecMarketConsuming(t) ==
    /\ pc[t] = "s_exec"
    /\ orders[cur[t]].type = "MARKET"
    /\ orders[cur[t]].symbol \in DOMAIN order_books
    /\ LET symbol == orders[cur[t]].symbol
           side == orders[cur[t]].side
           fills == get_fills_for_market_order(
                        order_books[symbol], side, orders[cur[t]].quantity)
           top == Opposing(order_books[symbol], side)[0]
       IN  /\ fills # << >>
           /\ ProcessFill(t, fills)
           /\ order_books' =
                [order_books EXCEPT ![symbol] =
                    IF side = "BUY"
                    THEN update_ask(@, top.price,
                                    top.size - Head(fills)[2], 0)
                    ELSE update_bid(@, top.price,
                                    top.size - Head(fills)[2], 0)]
    /\ UNCHANGED <<initialized, active_orders, order_queue, order_mutex,
                   cbVars, apiVars, req, cur, seen, resp, lifeVars, wpc,
                   poolVars>>

\* execute_market_order: the fills are taken from the book and the first
\* one is processed.
ExecMarket(t) ==
    /\ pc[t] = "s_exec"
    /\ orders[cur[t]].type = "MARKET"
    /\ orders[cur[t]].symbol \in DOMAIN order_books
    /\ LET fills == get_fills_for_market_order(
                        order_books[orders[cur[t]].symbol],
                        orders[cur[t]].side, orders[cur[t]].quantity)
       IN  /\ fills # << >>
           /\ ProcessFill(t, fills)
    /\ UNCHANGED <<engineVars, active_orders, order_queue, order_mutex, cbVars, apiVars,
                   req, cur, seen, resp, lifeVars, wpc, poolVars>>

\* execute_market_order: the next fill of the loop.
ExecMarketNext(t) ==
    /\ pc[t] = "s_fill"
    /\ ProcessFill(t, pend[t])
    /\ UNCHANGED <<engineVars, active_orders, order_queue, order_mutex, cbVars, apiVars,
                   req, cur, seen, resp, lifeVars, wpc, poolVars>>

\* execute_limit_order: the best price of the opposing side is read.
ExecLimitRead(t) ==
    /\ pc[t] = "s_exec"
    /\ orders[cur[t]].type = "LIMIT"
    /\ orders[cur[t]].symbol \in DOMAIN order_books
    /\ seen' = [seen EXCEPT ![t] =
                  IF orders[cur[t]].side = "BUY"
                  THEN get_best_ask(order_books[orders[cur[t]].symbol])
                  ELSE get_best_bid(order_books[orders[cur[t]].symbol])]
    /\ pc' = [pc EXCEPT ![t] = "s_limit"]
    /\ cbEvent' = NoEvent
    /\ UNCHANGED <<engineVars, orderVars, cbVars, apiVars, req, cur, pend, resp,
                   lifeVars, wpc, poolVars>>

\* A variant of can_fill with strict comparisons; C9 tells it from CanFill.
CanFillStrict(o, best_price) ==
    \/ (o.side = "BUY" /\ o.price > best_price)
    \/ (o.side = "SELL" /\ o.price < best_price)

\* can_fill of execute_limit_order, from the best price it has read.
CanFill(o, best_price) ==
    \/ (o.side = "BUY" /\ o.price >= best_price)
    \/ (o.side = "SELL" /\ o.price <= best_price)

\* The order as execute_limit_order leaves it.
LimitOutcome(o, best_price, book) ==
    IF CanFill(o, best_price)
       /\ has_sufficient_liquidity(book, o.side, o.quantity, o.price)
    THEN add_fill(o, o.price, o.quantity)
    ELSE set_status(o, "SUBMITTED")

\* execute_limit_order: the liquidity check and the immediate fill, or the
\* order is left SUBMITTED.
ExecLimitDecide(t) ==
    /\ pc[t] = "s_limit"
    /\ orders[cur[t]].symbol \in DOMAIN order_books
    /\ orders' = [orders EXCEPT ![cur[t]] =
                    LimitOutcome(@, seen[t], order_books[@.symbol])]
    /\ pc' = [pc EXCEPT ![t] = "s_resp"]
    /\ cbEvent' = NoEvent
    /\ UNCHANGED <<engineVars, active_orders, order_queue, order_mutex, cbVars, apiVars,
                   req, cur, pend, seen, resp, lifeVars, wpc, poolVars>>

\* execute_stop_order, get_mid_price: the best bid is read.
ExecStopRead(t) ==
    /\ pc[t] = "s_exec"
    /\ orders[cur[t]].type = "STOP"
    /\ orders[cur[t]].symbol \in DOMAIN order_books
    /\ seen' = [seen EXCEPT ![t] =
                  get_best_bid(order_books[orders[cur[t]].symbol])]
    /\ pc' = [pc EXCEPT ![t] = "s_stop"]
    /\ cbEvent' = NoEvent
    /\ UNCHANGED <<engineVars, orderVars, cbVars, apiVars, req, cur, pend, resp,
                   lifeVars, wpc, poolVars>>

\* triggered of execute_stop_order
Triggered(o, current_price) ==
    \/ (o.side = "BUY" /\ current_price >= o.stop_price)
    \/ (o.side = "SELL" /\ current_price <= o.stop_price)

\* The order as execute_stop_order leaves it.
StopOutcome(o, current_price) ==
    IF Triggered(o, current_price)
    THEN add_fill(o, current_price, o.quantity)
    ELSE set_status(o, "SUBMITTED")

\* execute_stop_order: the best ask is read, the mid price is formed and
\* the order is filled at it or left SUBMITTED.
ExecStopDecide(t) ==
    /\ pc[t] = "s_stop"
    /\ orders[cur[t]].symbol \in DOMAIN order_books
    /\ orders' = [orders EXCEPT ![cur[t]] =
                    StopOutcome(@, MidOf(seen[t],
                                         get_best_ask(order_books[@.symbol])))]
    /\ pc' = [pc EXCEPT ![t] = "s_resp"]
    /\ cbEvent' = NoEvent
    /\ UNCHANGED <<engineVars, active_orders, order_queue, order_mutex, cbVars, apiVars,
                   req, cur, pend, seen, resp, lifeVars, wpc, poolVars>>

\* The sample vector after a new sample with the newest dropped when full.
PushDropNewest(samples, latency_micros) ==
    IF Len(samples) >= MaxSamples THEN samples
    ELSE Append(samples, latency_micros)

\* record_order_processed under latency_mutex_: push_back, then erase from
\* the front whatever exceeds the retained count.
PushSample(samples, latency_micros) ==
    LET pushed == Append(samples, latency_micros)
    IN  IF Len(pushed) > MaxSamples
        THEN SubSeq(pushed, Len(pushed) - MaxSamples + 1, Len(pushed))
        ELSE pushed

\* A variant that counts every processed order as successful.
record_as_successful(m, latency_micros, success) ==
    [m EXCEPT !.total_orders_processed = @ + 1,
              !.total_latency_micros = @ + latency_micros,
              !.successful_executions = @ + 1,
              !.latency_samples = PushSample(@, latency_micros)]

\* PerformanceMetrics::record_order_processed, run without interleaving
record_order_processed(m, latency_micros, success) ==
    [m EXCEPT !.total_orders_processed = @ + 1,
              !.total_latency_micros = @ + latency_micros,
              !.successful_executions = IF success THEN @ + 1 ELSE @,
              !.failed_executions = IF success THEN @ ELSE @ + 1,
              !.latency_samples = PushSample(@, latency_micros)]

\* Elapsed microseconds submit_order measures for a call.
SubmitLatencies == {1}

\* PerformanceMetrics::record_fill(quantity, Price(average_price))
record_fill(m, quantity, average_price) ==
    [m EXCEPT !.total_volume =
                  @ + quantity * PriceToReal(PriceOfReal(average_price))]

\* The response of submit_order after the matching routine has returned.
Response(o, exec_result) ==
    [result |-> exec_result,
     status |-> o.status,
     executed_quantity |-> o.filled_quantity,
     average_price |-> PriceToReal(o.average_fill_price_ticks)]

\* submit_order: the response is populated from the order, and the call
\* returns.
SubmitRespond(t) ==
    /\ pc[t] = "s_resp"
    /\ resp' = [resp EXCEPT ![t] = Response(orders[cur[t]], resp[t].result)]
    /\ \E latency \in SubmitLatencies :
          LET recorded ==
                  record_order_processed(metrics, latency,
                                         resp[t].result = "SUCCESS")
          IN  metrics' =
                  IF /\ resp[t].result = "SUCCESS"
                     /\ resp'[t].executed_quantity > 0
                  THEN record_fill(recorded, resp'[t].executed_quantity,
                                   resp'[t].average_price)
                  ELSE recorded
    /\ pc' = [pc EXCEPT ![t] = "done"]
    /\ cbEvent' = NoEvent
    /\ UNCHANGED <<engineVars, orderVars, cbVars, g_engine, ret, req, cur,
                   pend, seen, lifeVars, wpc, poolVars>>

\* The caller takes the result; the thread is free for its next call.
Return(t) ==
    /\ pc[t] = "done"
    /\ pc' = [pc EXCEPT ![t] = "idle"]
    /\ req' = [req EXCEPT ![t] = NoReq]
    /\ cur' = [cur EXCEPT ![t] = 0]
    /\ pend' = [pend EXCEPT ![t] = << >>]
    /\ seen' = [seen EXCEPT ![t] = 0]
    /\ resp' = [resp EXCEPT ![t] = NoResp]
    /\ cbEvent' = NoEvent
    /\ UNCHANGED <<engineVars, orderVars, cbVars, apiVars, lifeVars, wpc, poolVars>>

\* ------------------------------------------------------------------------
\* ExecutionEngine::cancel_order
\* ------------------------------------------------------------------------

CancelRequest(id) == [op |-> "cancel", order_id |-> id]

\* The early returns of cancel_order: the lock is taken, the lookup or the
\* is_active test fails, the lock is released.
CancelFail(t, id, result) ==
    /\ pc[t] = "idle"
    /\ order_mutex = NoThread
    /\ pc' = [pc EXCEPT ![t] = "done"]
    /\ req' = [req EXCEPT ![t] = CancelRequest(id)]
    /\ resp' = [resp EXCEPT ![t] = [result |-> result]]
    /\ cbEvent' = NoEvent
    /\ UNCHANGED <<engineVars, orderVars, cbVars, apiVars, cur, pend, seen, lifeVars, wpc,
                   poolVars>>

\* A variant of the not-found return that answers INVALID_ORDER; C7 tells
\* it from CancelNotFound.
CancelNotFoundAsInvalid(t, id) ==
    /\ active_orders[id] = 0
    /\ CancelFail(t, id, "INVALID_ORDER")

\* A variant of the not-active return that answers ORDER_NOT_FOUND; C6
\* tells it from CancelInactive.
CancelInactiveAsNotFound(t, id) ==
    /\ active_orders[id] # 0
    /\ ~is_active(orders[active_orders[id]])
    /\ CancelFail(t, id, "ORDER_NOT_FOUND")

CancelNotFound(t, id) ==
    /\ active_orders[id] = 0
    /\ CancelFail(t, id, "ORDER_NOT_FOUND")

\* A variant of the not-active return that reports the refusal through the
\* status callback.
CancelInactiveNotified(t, id) ==
    /\ active_orders[id] # 0
    /\ ~is_active(orders[active_orders[id]])
    /\ pc[t] = "idle"
    /\ order_mutex = NoThread
    /\ pc' = [pc EXCEPT ![t] = "done"]
    /\ req' = [req EXCEPT ![t] = CancelRequest(id)]
    /\ resp' = [resp EXCEPT ![t] = [result |-> "INVALID_ORDER"]]
    /\ cbEvent' = IF status_callback
                  THEN [kind |-> "status", thread |-> t, order_id |-> id,
                        status |-> "REJECTED", message |-> "Not active",
                        order_mutex_held |-> TRUE]
                  ELSE NoEvent
    /\ UNCHANGED <<engineVars, orderVars, cbVars, apiVars, cur, pend, seen,
                   lifeVars, wpc, poolVars>>

CancelInactive(t, id) ==
    /\ active_orders[id] # 0
    /\ ~is_active(orders[active_orders[id]])
    /\ CancelFail(t, id, "INVALID_ORDER")

\* cancel_order: the lock is taken, the order is found and is_active.
CancelCheck(t, id) ==
    /\ pc[t] = "idle"
    /\ order_mutex = NoThread
    /\ active_orders[id] # 0
    /\ is_active(orders[active_orders[id]])
    /\ order_mutex' = t
    /\ pc' = [pc EXCEPT ![t] = "c_commit"]
    /\ req' = [req EXCEPT ![t] = CancelRequest(id)]
    /\ cur' = [cur EXCEPT ![t] = active_orders[id]]
    /\ cbEvent' = NoEvent
    /\ UNCHANGED <<engineVars, orders, active_orders, order_queue, cbVars, apiVars,
                   pend, seen, resp, lifeVars, wpc, poolVars>>

\* The invocation of status_callback_ by cancel_order, when it is set.
StatusEvent(t, id) ==
    IF status_callback
    THEN [kind |-> "status", thread |-> t, order_id |-> id,
          status |-> "CANCELLED", message |-> "Order cancelled",
          order_mutex_held |-> (order_mutex = t)]
    ELSE NoEvent

\* cancel_order: set_status(CANCELLED), erase, the status callback; the lock
\* is released on return.
CancelCommit(t) ==
    /\ pc[t] = "c_commit"
    /\ orders' = [orders EXCEPT ![cur[t]] = set_status(@, "CANCELLED")]
    /\ active_orders' = [active_orders EXCEPT ![req[t].order_id] = 0]
    /\ cbEvent' = StatusEvent(t, req[t].order_id)
    /\ order_mutex' = NoThread
    /\ resp' = [resp EXCEPT ![t] = [result |-> "SUCCESS"]]
    /\ pc' = [pc EXCEPT ![t] = "done"]
    /\ UNCHANGED <<engineVars, order_queue, cbVars, apiVars, req, cur, pend, seen,
                   lifeVars, wpc, poolVars>>

\* ------------------------------------------------------------------------
\* Requests and feed writes drawn by the specifications
\* ------------------------------------------------------------------------

\* A COrderRequest; price and stop_price are reals in tenths of a tick.
Request(id, symbol, type, side, quantity, price, stop_price) ==
    [op |-> "submit", order_id |-> id, symbol |-> symbol, order_type |-> type,
     side |-> side, quantity |-> quantity, price |-> price,
     stop_price |-> stop_price]

Sides == {"BUY", "SELL"}

\* Requests that fail Order::validate, one per rule and boundary.
InvalidRequests ==
    { Request("", "AAPL", "MARKET", "BUY", 1, 0, 0),
      Request("a", "", "MARKET", "BUY", 1, 0, 0),
      Request("a", "AAPL", "MARKET", "SELL", 0, 0, 0),
      Request("a", "AAPL", "MARKET", "BUY", -1, 0, 0),
      Request("a", "AAPL", "LIMIT", "BUY", 1, 0, 0),
      Request("a", "AAPL", "LIMIT", "SELL", 1, 9, 0),
      Request("a", "AAPL", "LIMIT", "BUY", 1, -15, 0),
      Request("a", "AAPL", "STOP", "SELL", 1, 0, 0),
      Request("a", "AAPL", "STOP", "BUY", 1, 0, 9) }

\* Valid requests the risk check rejects.
RiskRequests ==
    { Request("a", "AAPL", "MARKET", "BUY", max_position_size + 1, 0, 0),
      Request("a", "AAPL", "LIMIT", "BUY", max_position_size + 1, 25, 0),
      Request("a", "AAPL", "STOP", "SELL", max_position_size + 1, 0, 25) }

\* Orders on a symbol without a book, and of a type submit_order does not
\* dispatch.
OtherRequests ==
    { Request("a", "ZZZZ", "MARKET", "BUY", 1, 0, 0),
      Request("a", "ZZZZ", "LIMIT", "BUY", 1, 15, 0),
      Request("a", "ZZZZ", "STOP", "SELL", 1, 0, 15),
      Request("b", "AAPL", "STOP_LIMIT", "BUY", 1, 15, 15) }

\* The entry step of a submit_order call, with the request drawn from Reqs.
\* At most MaxOrders requests are admitted in a run.
SubmitCall(t, Reqs) ==
    \/ \E r \in Reqs : SubmitInvalid(t, r)
    \/ \E r \in Reqs : SubmitRisk(t, r)
    \/ \E r \in Reqs : Len(orders) < MaxOrders /\ SubmitAdmit(t, r)

\* The steps of a cancel_order call.
CancelCall(t) ==
    \/ \E id \in OrderIds : CancelNotFound(t, id)
    \/ \E id \in OrderIds : CancelInactive(t, id)
    \/ \E id \in OrderIds : CancelCheck(t, id)
    \/ CancelCommit(t)

\* The later steps of a call, by the routine they belong to.
CommonStep(t) ==
    \/ ExecOther(t)
    \/ ExecNoBook(t)
    \/ SubmitRespond(t)
    \/ Return(t)

MarketStep(t) ==
    \/ ExecMarketEmpty(t)
    \/ ExecMarket(t)
    \/ ExecMarketNext(t)

LimitStep(t) ==
    \/ ExecLimitRead(t)
    \/ ExecLimitDecide(t)

StopStep(t) ==
    \/ ExecStopRead(t)
    \/ ExecStopDecide(t)

\* A feed write of one level of one side.
Feed(Prices, Sizes, FeedLevels) ==
    \E symbol \in SeedSymbols, side \in {"BID", "ASK"}, price \in Prices,
       size \in Sizes, level \in FeedLevels :
        FeedWrite(symbol, side, price, size, level)

\* ------------------------------------------------------------------------
\* Spec: submit_order of market orders and of resting limit orders by one
\* thread, concurrent with cancel_order by another, against a book of two
\* levels per side written by a feed
\* ------------------------------------------------------------------------

SpecRequests ==
    { Request("a", "AAPL", "MARKET", side, q, 0, 0) :
        side \in Sides, q \in {1, 3, 5} }
    \cup
    { Request("a", "AAPL", "LIMIT", "BUY", 1, 15, 0),
      Request("a", "AAPL", "MARKET", "SELL", 0, 0, 0),
      Request("a", "AAPL", "MARKET", "BUY", max_position_size + 1, 0, 0),
      Request("a", "ZZZZ", "MARKET", "BUY", 1, 0, 0),
      Request("a", "AAPL", "STOP_LIMIT", "BUY", 1, 15, 15) }

Next ==
    \/ initialize
    \/ register_status_callback
    \/ Feed({2}, {2}, {0, 1})
    \/ SubmitCall("c1", SpecRequests)
    \/ \E t \in Clients : CancelCall(t)
    \/ \E t \in Clients : CommonStep(t)
    \/ \E t \in Clients : MarketStep(t)
    \/ \E t \in Clients : LimitStep(t)

Spec == Init /\ [][Next]_vars

\* ------------------------------------------------------------------------
\* ExecutionEngine::start
\* ------------------------------------------------------------------------

\* The simulator's initial price of the seed symbol: Price(150.0)
AAPL_START == 150

\* The size the simulator writes at level 0
SIM_SIZE == 1000

\* Number of simulator cycles that move the price; later cycles draw a
\* change of 0.
MaxSimCycles == 1

LifeCall(op) == [op |-> op, i |-> 0, end |-> 0, result |-> "none"]

\* The thread start() spawns next.
NextWorker == WorkerNames[Cardinality({w \in Workers : wpc[w] # "unborn"}) + 1]

CanSpawn == \E w \in Workers : wpc[w] = "unborn"

\* start() on an engine that is not initialized: SYSTEM_ERROR, no lock taken.
StartUninitialized(t) ==
    /\ ~crashed
    /\ lpc[t] = "idle"
    /\ calls < MaxLifecycleCalls
    /\ ~initialized
    /\ calls' = calls + 1
    /\ lvar' = [lvar EXCEPT ![t] = [LifeCall("start") EXCEPT !.result = "SYSTEM_ERROR"]]
    /\ lpc' = [lpc EXCEPT ![t] = "done"]
    /\ cbEvent' = NoEvent
    /\ UNCHANGED <<engineVars, orderVars, cbVars, apiVars, clientVars, wpc, running,
                   healthy, engine_mutex, worker_threads, joined, sim, crashed,
                   poolVars>>

\* start() on a running engine refused with SYSTEM_ERROR.
StartAlreadyAsError(t) ==
    /\ ~crashed
    /\ lpc[t] = "idle"
    /\ calls < MaxLifecycleCalls
    /\ initialized
    /\ engine_mutex = NoThread
    /\ running
    /\ calls' = calls + 1
    /\ lvar' = [lvar EXCEPT ![t] = [LifeCall("start") EXCEPT !.result = "SYSTEM_ERROR"]]
    /\ lpc' = [lpc EXCEPT ![t] = "done"]
    /\ cbEvent' = NoEvent
    /\ UNCHANGED <<engineVars, orderVars, cbVars, apiVars, clientVars, wpc,
                   running, healthy, engine_mutex, worker_threads, joined, sim,
                   crashed, poolVars>>

\* start() on a running engine: the engine-wide guard is taken and released,
\* SUCCESS.
StartAlready(t) ==
    /\ ~crashed
    /\ lpc[t] = "idle"
    /\ calls < MaxLifecycleCalls
    /\ initialized
    /\ engine_mutex = NoThread
    /\ running
    /\ calls' = calls + 1
    /\ lvar' = [lvar EXCEPT ![t] = [LifeCall("start") EXCEPT !.result = "SUCCESS"]]
    /\ lpc' = [lpc EXCEPT ![t] = "done"]
    /\ cbEvent' = NoEvent
    /\ UNCHANGED <<engineVars, orderVars, cbVars, apiVars, clientVars, wpc, running,
                   healthy, engine_mutex, worker_threads, joined, sim, crashed,
                   poolVars>>

\* ExecutionEngine::is_healthy
is_healthy == healthy /\ running

\* start() that sets running_ and leaves healthy_ as it is.
StartBeginUnhealthy(t) ==
    /\ ~crashed
    /\ lpc[t] = "idle"
    /\ calls < MaxLifecycleCalls
    /\ initialized
    /\ engine_mutex = NoThread
    /\ ~running
    /\ calls' = calls + 1
    /\ engine_mutex' = t
    /\ running' = TRUE
    /\ lvar' = [lvar EXCEPT ![t] = LifeCall("start")]
    /\ lpc' = [lpc EXCEPT ![t] = "st_spawn"]
    /\ cbEvent' = NoEvent
    /\ UNCHANGED <<engineVars, orderVars, cbVars, apiVars, clientVars, wpc,
                   healthy, worker_threads, joined, sim, crashed,
                   poolVars>>

\* start(): the guard is taken, the engine is not running; running_ and
\* healthy_ are set.
StartBegin(t) ==
    /\ ~crashed
    /\ lpc[t] = "idle"
    /\ calls < MaxLifecycleCalls
    /\ initialized
    /\ engine_mutex = NoThread
    /\ ~running
    /\ calls' = calls + 1
    /\ engine_mutex' = t
    /\ running' = TRUE
    /\ healthy' = TRUE
    /\ lvar' = [lvar EXCEPT ![t] = LifeCall("start")]
    /\ lpc' = [lpc EXCEPT ![t] = "st_spawn"]
    /\ cbEvent' = NoEvent
    /\ UNCHANGED <<engineVars, orderVars, cbVars, apiVars, clientVars, wpc,
                   worker_threads, joined, sim, crashed, poolVars>>

\* start(): one iteration of the loop that spawns the workers.
StartSpawn(t) ==
    /\ ~crashed
    /\ lpc[t] = "st_spawn"
    /\ lvar[t].i < worker_thread_count
    /\ CanSpawn
    /\ wpc' = [wpc EXCEPT ![NextWorker] = "loop"]
    /\ worker_threads' = Append(worker_threads, NextWorker)
    /\ lvar' = [lvar EXCEPT ![t].i = @ + 1]
    /\ cbEvent' = NoEvent
    /\ UNCHANGED <<engineVars, orderVars, cbVars, apiVars, clientVars, running, healthy,
                   engine_mutex, joined, sim, lpc, calls, crashed,
                   poolVars>>

\* The simulator thread as start() creates it.
\* ask_from is history, no field of the program: the number of orders
\* admitted before this thread's first write of the ask level 0 (-1 until
\* that write).
NewSimulator ==
    [pc |-> "loop", joinable |-> TRUE,
     price |-> AAPL_START * TICK_PRECISION, cycles |-> 0, ask_from |-> -1]

\* start(): market_simulator_thread_ is assigned the new thread (assigning
\* to a joinable std::thread calls std::terminate), the guard is released,
\* SUCCESS.
StartSimulator(t) ==
    /\ ~crashed
    /\ lpc[t] = "st_spawn"
    /\ lvar[t].i >= worker_thread_count
    /\ IF enable_simulation /\ sim.joinable
       THEN /\ crashed' = TRUE
            /\ UNCHANGED <<sim, engine_mutex, lpc, lvar>>
       ELSE /\ sim' = IF enable_simulation THEN NewSimulator ELSE sim
            /\ engine_mutex' = NoThread
            /\ lvar' = [lvar EXCEPT ![t].result = "SUCCESS"]
            /\ lpc' = [lpc EXCEPT ![t] = "done"]
            /\ UNCHANGED crashed
    /\ cbEvent' = NoEvent
    /\ UNCHANGED <<engineVars, orderVars, cbVars, apiVars, clientVars, wpc, running,
                   healthy, worker_threads, joined, calls, poolVars>>

\* ------------------------------------------------------------------------
\* ExecutionEngine::stop
\* ------------------------------------------------------------------------

\* stop(): running_ and healthy_ are cleared; no guard is taken.
StopBegin(t) ==
    /\ ~crashed
    /\ lpc[t] = "idle"
    /\ calls < MaxLifecycleCalls
    /\ calls' = calls + 1
    /\ running' = FALSE
    /\ healthy' = FALSE
    /\ lvar' = [lvar EXCEPT ![t] = LifeCall("stop")]
    /\ lpc' = [lpc EXCEPT ![t] = "sp_notify"]
    /\ cbEvent' = NoEvent
    /\ UNCHANGED <<engineVars, orderVars, cbVars, apiVars, clientVars, wpc, engine_mutex,
                   worker_threads, joined, sim, crashed, poolVars>>

\* stop(): notify_all, and the join loop begins over the threads that are in
\* worker_threads_ now.
StopNotify(t) ==
    /\ ~crashed
    /\ lpc[t] = "sp_notify"
    /\ NotifyAll
    /\ lvar' = [lvar EXCEPT ![t].i = 0, ![t].end = Len(worker_threads)]
    /\ lpc' = [lpc EXCEPT ![t] = "sp_join"]
    /\ cbEvent' = NoEvent
    /\ UNCHANGED <<engineVars, orderVars, cbVars, apiVars, clientVars, running, healthy,
                   engine_mutex, worker_threads, joined, sim, calls, crashed,
                   poolVars>>

\* stop(): one iteration of the join loop; join() returns once the thread
\* has returned from process_order_queue.
StopJoin(t) ==
    /\ ~crashed
    /\ lpc[t] = "sp_join"
    /\ lvar[t].i < lvar[t].end
    /\ LET w == worker_threads[lvar[t].i + 1]
       IN  /\ w \notin joined => wpc[w] = "exited"
           /\ joined' = joined \cup {w}
    /\ lvar' = [lvar EXCEPT ![t].i = @ + 1]
    /\ cbEvent' = NoEvent
    /\ UNCHANGED <<engineVars, orderVars, cbVars, apiVars, clientVars, wpc, running,
                   healthy, engine_mutex, worker_threads, sim, lpc, calls,
                   crashed, poolVars>>

\* stop(): worker_threads_.clear(); destroying a joinable std::thread calls
\* std::terminate.
StopClear(t) ==
    /\ ~crashed
    /\ lpc[t] = "sp_join"
    /\ lvar[t].i >= lvar[t].end
    /\ IF \E k \in 1 .. Len(worker_threads) : worker_threads[k] \notin joined
       THEN /\ crashed' = TRUE
            /\ UNCHANGED <<worker_threads, joined, lpc>>
       ELSE /\ worker_threads' = << >>
            /\ joined' = {}
            /\ lpc' = [lpc EXCEPT ![t] = "sp_sim"]
            /\ UNCHANGED crashed
    /\ cbEvent' = NoEvent
    /\ UNCHANGED <<engineVars, orderVars, cbVars, apiVars, clientVars, wpc, running,
                   healthy, engine_mutex, sim, lvar, calls, poolVars>>

\* stop(): the simulator thread is joined if it is joinable; SUCCESS.
StopSimulator(t) ==
    /\ ~crashed
    /\ lpc[t] = "sp_sim"
    /\ sim.joinable => sim.pc = "exited"
    /\ sim' = [sim EXCEPT !.joinable = FALSE]
    /\ lvar' = [lvar EXCEPT ![t].result = "SUCCESS"]
    /\ lpc' = [lpc EXCEPT ![t] = "done"]
    /\ cbEvent' = NoEvent
    /\ UNCHANGED <<engineVars, orderVars, cbVars, apiVars, clientVars, wpc, running,
                   healthy, engine_mutex, worker_threads, joined, calls, crashed,
                   poolVars>>

\* The caller of start() or stop() takes the result.
LifeReturn(t) ==
    /\ ~crashed
    /\ lpc[t] = "done"
    /\ lpc' = [lpc EXCEPT ![t] = "idle"]
    /\ lvar' = [lvar EXCEPT ![t] = NoCall]
    /\ cbEvent' = NoEvent
    /\ UNCHANGED <<engineVars, orderVars, cbVars, apiVars, clientVars, wpc, running,
                   healthy, engine_mutex, worker_threads, joined, sim, calls,
                   crashed, poolVars>>

\* ------------------------------------------------------------------------
\* ExecutionEngine::process_order_queue (one worker thread)
\* ------------------------------------------------------------------------

WorkerFrame ==
    UNCHANGED <<engineVars, orders, active_orders, cbVars, apiVars, clientVars,
                lifeVars, poolVars>>

\* while (running_.load())
WorkerLoop(w) ==
    /\ ~crashed
    /\ wpc[w] = "loop"
    /\ wpc' = [wpc EXCEPT ![w] = IF running THEN "lock" ELSE "exited"]
    /\ cbEvent' = NoEvent
    /\ UNCHANGED <<order_queue, order_mutex>>
    /\ WorkerFrame

\* The predicate of order_cv_.wait
WaitPredicate == order_queue # << >> \/ ~running

\* order_mutex_ is locked (on entry, or again after a wakeup) and the wait
\* predicate is evaluated under it.
WorkerLock(w) ==
    /\ ~crashed
    /\ wpc[w] \in {"lock", "woken"}
    /\ order_mutex = NoThread
    /\ order_mutex' = w
    /\ wpc' = [wpc EXCEPT ![w] = IF WaitPredicate THEN "awake" ELSE "prewait"]
    /\ cbEvent' = NoEvent
    /\ UNCHANGED order_queue
    /\ WorkerFrame

\* The predicate was false: the thread releases the mutex and blocks on the
\* condition variable.
WorkerWait(w) ==
    /\ ~crashed
    /\ wpc[w] = "prewait"
    /\ order_mutex' = NoThread
    /\ wpc' = [wpc EXCEPT ![w] = "waiting"]
    /\ cbEvent' = NoEvent
    /\ UNCHANGED order_queue
    /\ WorkerFrame

\* A worker that marks every order it pops as REJECTED.
WorkerDrainRejecting(w) ==
    /\ ~crashed
    /\ wpc[w] = "awake"
    /\ order_mutex' = NoThread
    /\ order_queue' = IF running THEN << >> ELSE order_queue
    /\ orders' = [i \in 1 .. Len(orders) |->
                    IF running /\ \E k \in 1 .. Len(order_queue) :
                                      order_queue[k] = i
                    THEN set_status(orders[i], "REJECTED")
                    ELSE orders[i]]
    /\ wpc' = [wpc EXCEPT ![w] = IF running THEN "loop" ELSE "exited"]
    /\ cbEvent' = NoEvent
    /\ UNCHANGED <<engineVars, active_orders, cbVars, apiVars, clientVars,
                   lifeVars, poolVars>>

\* After the wait: break when running_ is clear, else pop every queued
\* order; the mutex is released at the end of the iteration.
WorkerDrain(w) ==
    /\ ~crashed
    /\ wpc[w] = "awake"
    /\ order_mutex' = NoThread
    /\ order_queue' = IF running THEN << >> ELSE order_queue
    /\ wpc' = [wpc EXCEPT ![w] = IF running THEN "loop" ELSE "exited"]
    /\ cbEvent' = NoEvent
    /\ WorkerFrame

WorkerStep(w) ==
    \/ WorkerLoop(w)
    \/ WorkerLock(w)
    \/ WorkerWait(w)
    \/ WorkerDrain(w)

\* ------------------------------------------------------------------------
\* ExecutionEngine::simulate_market_data (the simulator thread)
\* ------------------------------------------------------------------------

\* Price::operator*(double factor), the factor given as num/den
\* (the factor taken as the exact ratio; the product is split so that no
\* intermediate value exceeds 32 bits)
Scale(ticks, num, den) ==
    (ticks \div den) * num + TruncDiv((ticks % den) * num, den)

SimFrame ==
    UNCHANGED <<initialized, orderVars, cbVars, apiVars, clientVars, wpc, running,
                healthy, engine_mutex, worker_threads, joined, lpc, lvar,
                calls, crashed, poolVars>>

\* while (running_.load())
SimLoop ==
    /\ ~crashed
    /\ sim.pc = "loop"
    /\ sim' = [sim EXCEPT !.pc = IF running THEN "bid" ELSE "exited"]
    /\ cbEvent' = NoEvent
    /\ UNCHANGED order_books
    /\ SimFrame

\* The price moves by change percent, and update_bid(price * 0.999, 1000, 0).
SimBid(change) ==
    /\ ~crashed
    /\ sim.pc = "bid"
    /\ change = 0 \/ sim.cycles < MaxSimCycles
    /\ LET price == Scale(sim.price, 100 + change, 100)
       IN  /\ sim' = [sim EXCEPT !.pc = "ask", !.price = price,
                                  !.cycles = IF change = 0 THEN @ ELSE @ + 1]
           /\ order_books' =
                [s \in DOMAIN order_books |->
                    update_bid(order_books[s], Scale(price, 999, 1000),
                               SIM_SIZE, 0)]
    /\ cbEvent' = NoEvent
    /\ SimFrame

\* A simulator whose ask is the price less 0.2%.
SimAskBelowBid ==
    /\ ~crashed
    /\ sim.pc = "ask"
    /\ sim' = [sim EXCEPT !.pc = "loop",
                           !.ask_from = IF @ = -1 THEN Len(orders) ELSE @]
    /\ order_books' =
         [s \in DOMAIN order_books |->
             update_ask(order_books[s], Scale(sim.price, 998, 1000),
                        SIM_SIZE, 0)]
    /\ cbEvent' = NoEvent
    /\ SimFrame

\* update_ask(price * 1.001, 1000, 0), then the 100 ms sleep.
SimAsk ==
    /\ ~crashed
    /\ sim.pc = "ask"
    /\ sim' = [sim EXCEPT !.pc = "loop",
                           !.ask_from = IF @ = -1 THEN Len(orders) ELSE @]
    /\ order_books' =
         [s \in DOMAIN order_books |->
             update_ask(order_books[s], Scale(sim.price, 1001, 1000),
                        SIM_SIZE, 0)]
    /\ cbEvent' = NoEvent
    /\ SimFrame

SimStep ==
    \/ SimLoop
    \/ \E change \in {-1, 0, 1} : SimBid(change)
    \/ SimAsk

\* ------------------------------------------------------------------------
\* SpecLife: start() by one thread and stop() by another, the workers, the
\* simulator, and a client whose admitted order reaches the work queue
\* ------------------------------------------------------------------------

LifeRequests == { Request("a", "AAPL", "MARKET", "BUY", 1, 0, 0) }

NextLife ==
    \/ ~crashed /\ initialize
    \/ StartUninitialized("l1")
    \/ StartAlready("l1")
    \/ StartBegin("l1")
    \/ StartSpawn("l1")
    \/ StartSimulator("l1")
    \/ StopBegin("l2")
    \/ StopNotify("l2")
    \/ StopJoin("l2")
    \/ StopClear("l2")
    \/ StopSimulator("l2")
    \/ \E t \in LThreads : LifeReturn(t)
    \/ \E w \in Workers : WorkerStep(w)
    \/ SimStep
    \/ \E r \in LifeRequests :
          ~crashed /\ Len(orders) < MaxOrders /\ SubmitAdmit("c1", r)
    \/ ~crashed /\ MarketStep("c1")
    \/ ~crashed /\ SubmitRespond("c1")
    \/ ~crashed /\ Return("c1")

SpecLife == Init /\ [][NextLife]_vars

\* ------------------------------------------------------------------------
\* SpecMatch: submit_order of every request family by one thread (rejected,
\* unknown symbol, LIMIT and STOP against a two-level book), the book
\* written by a feed at any moment
\* ------------------------------------------------------------------------

\* Requests at the boundary of the risk check: a valid one of exactly
\* max_position_size, and invalid ones above it.
BoundaryRequests ==
    { Request("a", "AAPL", "LIMIT", "BUY", max_position_size, 25, 0),
      Request("", "AAPL", "MARKET", "BUY", max_position_size + 1, 0, 0),
      Request("a", "AAPL", "LIMIT", "SELL", max_position_size + 1, 0, 0) }

MatchRequests ==
    InvalidRequests \cup RiskRequests \cup OtherRequests
    \cup BoundaryRequests
    \cup
    { Request("a", "AAPL", "LIMIT", side, q, price, 0) :
        side \in Sides, q \in {1, 3}, price \in {20, 25, 30} }
    \cup
    { Request("a", "AAPL", "STOP", side, 1, 0, stop) :
        side \in Sides, stop \in {20, 25, 30} }

NextMatch ==
    \/ initialize
    \/ Feed({2, 3}, {2}, {0, 1})
    \/ SubmitCall("c1", MatchRequests)
    \/ CommonStep("c1")
    \/ LimitStep("c1")
    \/ StopStep("c1")

SpecMatch == Init /\ [][NextMatch]_vars

\* ------------------------------------------------------------------------
\* SpecStop: one thread calls start() and then stop(); the workers, the
\* simulator and the steps of stop() are scheduled fairly
\* ------------------------------------------------------------------------

StopSteps(t) ==
    \/ StopNotify(t)
    \/ StopJoin(t)
    \/ StopClear(t)
    \/ StopSimulator(t)

NextStop ==
    \/ ~crashed /\ initialize
    \/ StartUninitialized("l1")
    \/ StartAlready("l1")
    \/ StartBegin("l1")
    \/ StartSpawn("l1")
    \/ StartSimulator("l1")
    \/ StopBegin("l1")
    \/ StopSteps("l1")
    \/ LifeReturn("l1")
    \/ \E w \in Workers : WorkerStep(w)
    \/ SimStep

SpecStop ==
    /\ Init
    /\ [][NextStop]_vars
    /\ WF_vars(StopSteps("l1"))
    /\ \A w \in Workers : WF_vars(WorkerStep(w))
    /\ WF_vars(SimStep)

\* ------------------------------------------------------------------------
\* Properties
\* ------------------------------------------------------------------------

OrderIndexes == 1 .. Len(orders)

\* C1: once the status of an order is FILLED, CANCELLED, REJECTED or
\* EXPIRED, no step of submit_order or cancel_order changes it.
C1_TerminalStatusIsFinal ==
    [][\A i \in OrderIndexes :
          orders[i].status \in Terminal
              => orders'[i].status = orders[i].status]_vars

\* C2: every order has filled_quantity <= quantity, and its status is
\* FILLED exactly when filled_quantity = quantity.
C2_FilledIffComplete ==
    \A i \in OrderIndexes :
        /\ orders[i].filled_quantity <= orders[i].quantity
        /\ (orders[i].status = "FILLED")
              <=> (orders[i].filled_quantity = orders[i].quantity)

\* C3: every call of stop() on a running engine eventually returns, the
\* workers, the simulator and stop() itself being scheduled fairly.
C3_StopReturns ==
    (lvar["l1"].op = "stop") ~> (lpc["l1"] = "done")

\* C4: at the step where stop() returns, no worker thread and no simulator
\* thread of the engine is live.
C4_StopLeavesNoThread ==
    [][\A t \in LThreads :
          (lvar[t].op = "stop" /\ lpc[t] # "done" /\ lpc'[t] = "done")
              => (LiveWorkers' = {} /\ ~SimLive')]_vars

\* The rules of validation as the interface states them, on a request.
FailsValidation(r) ==
    \/ r.order_id = ""
    \/ r.symbol = ""
    \/ r.quantity <= 0
    \/ (r.order_type = "LIMIT" /\ PriceOfReal(r.price) <= 0)
    \/ (r.order_type = "STOP" /\ PriceOfReal(r.stop_price) <= 0)

\* C5: submit_order of a request that fails validation returns
\* INVALID_ORDER and its response reports status REJECTED.
C5_InvalidIsRejected ==
    \A t \in Clients :
        (pc[t] = "done" /\ req[t].op = "submit" /\ FailsValidation(req[t]))
            => (resp[t].result = "INVALID_ORDER" /\ resp[t].status = "REJECTED")

\* A step in which thread t enters cancel_order(id).
CancelEntry(t, id) ==
    pc[t] = "idle" /\ pc'[t] # "idle" /\ req'[t] = CancelRequest(id)

\* The step is an early return of cancel_order with `result` that changes
\* no order and no index entry and invokes no callback.
CancelRefused(t, result) ==
    /\ pc'[t] = "done"
    /\ resp'[t].result = result
    /\ orders' = orders
    /\ active_orders' = active_orders
    /\ cbEvent' = NoEvent

LatestOrder(id) ==
    LET S == {i \in OrderIndexes : orders[i].order_id = id}
    IN  IF S = {} THEN 0 ELSE CHOOSE i \in S : \A j \in S : j <= i

C7_CancelAbsent ==
    [][/\ \A t \in Clients, id \in OrderIds :
            (CancelEntry(t, id) /\ active_orders[id] = 0)
                => CancelRefused(t, "ORDER_NOT_FOUND")
       /\ \A t \in Clients :
            (pc[t] = "c_commit" /\ pc'[t] = "done")
                => active_orders'[req[t].order_id] = 0
       /\ \A id \in OrderIds :
            (active_orders[id] = 0 /\ active_orders'[id] # 0)
                => \E t \in Clients :
                      /\ pc[t] = "idle"
                      /\ req'[t].op = "submit"
                      /\ req'[t].order_id = id]_vars

\* A second cancel_order of a cancelled order has returned ORDER_NOT_FOUND.
C7_Witness ==
    \E t \in Clients :
        /\ pc[t] = "done"
        /\ req[t].op = "cancel"
        /\ resp[t].result = "ORDER_NOT_FOUND"
        /\ LatestOrder(req[t].order_id) # 0
        /\ orders[LatestOrder(req[t].order_id)].status = "CANCELLED"

\* C8: cancel_order of an indexed id whose order is SUBMITTED or
\* PARTIALLY_FILLED goes on to cancel it: it returns SUCCESS, the order is
\* CANCELLED, the id leaves the index, and the registered status callback
\* is invoked once, in the committing step, with (id, CANCELLED,
\* "Order cancelled").
C8_CancelActive ==
    [][\A t \in Clients :
          /\ \A id \in OrderIds :
                (/\ CancelEntry(t, id)
                 /\ active_orders[id] # 0
                 /\ orders[active_orders[id]].status
                        \in {"SUBMITTED", "PARTIALLY_FILLED"})
                    => (/\ pc'[t] = "c_commit"
                        /\ cur'[t] = active_orders[id]
                        /\ cbEvent' = NoEvent)
          /\ (pc[t] = "c_commit" /\ pc'[t] # "c_commit")
                => (/\ pc'[t] = "done"
                    /\ resp'[t].result = "SUCCESS"
                    /\ orders'[cur[t]].status = "CANCELLED"
                    /\ active_orders'[req[t].order_id] = 0
                    /\ IF status_callback
                       THEN /\ cbEvent'.kind = "status"
                            /\ cbEvent'.order_id = req[t].order_id
                            /\ cbEvent'.status = "CANCELLED"
                            /\ cbEvent'.message = "Order cancelled"
                       ELSE cbEvent' = NoEvent)]_vars

\* cancel_order of a PARTIALLY_FILLED order has succeeded and its status
\* callback has just been invoked.
C8_Witness ==
    \E t \in Clients :
        /\ pc[t] = "done"
        /\ req[t].op = "cancel"
        /\ resp[t].result = "SUCCESS"
        /\ cbEvent.kind = "status"
        /\ cbEvent.order_id = req[t].order_id
        /\ orders[cur[t]].status = "CANCELLED"
        /\ orders[cur[t]].filled_quantity > 0

\* A request of `type` that passes validation, on a symbol that has a book.
ValidOnKnownSymbol(r, type) ==
    /\ r.op = "submit"
    /\ r.order_type = type
    /\ ~FailsValidation(r)
    /\ r.symbol \in DOMAIN order_books

\* The step in which thread t enters submit_order with a request of `type`
\* that is valid on a known symbol.
SubmitEntry(t, type) ==
    pc[t] = "idle" /\ pc'[t] # "idle" /\ ValidOnKnownSymbol(req'[t], type)

\* The request is admitted: a fresh PENDING order is handed to the matching
\* routine of its type.
Admitted(t) ==
    /\ pc'[t] = "s_exec"
    /\ cur'[t] \in 1 .. Len(orders')
    /\ orders'[cur'[t]] = NewOrder(req'[t])

\* The step in which submit_order returns to thread t the response of an
\* order of `type` whose matching routine succeeded.
SubmitReturns(t, type) ==
    /\ pc[t] = "s_resp"
    /\ pc'[t] = "done"
    /\ orders[cur[t]].type = type
    /\ resp[t].result = "SUCCESS"

\* The order was left with exactly one fill, of its full quantity at `price`.
FilledOnceAt(before, after, price) ==
    /\ after.status = "FILLED"
    /\ after.fills = Append(before.fills, <<price, before.quantity>>)
    /\ Len(after.fills) = 1
    /\ after.filled_quantity = before.quantity

\* The order was left SUBMITTED with no fill.
LeftResting(before, after) ==
    /\ after.status = "SUBMITTED"
    /\ after.fills = << >>
    /\ after.filled_quantity = 0

\* The decision of execute_limit_order for the order of thread t: filled
\* iff the limit crosses the best opposing price the call has read and the
\* book has sufficient liquidity within the limit.
LimitDecision(t) ==
    LET o == orders[cur[t]]
        fillable ==
            /\ \/ (o.side = "BUY" /\ o.price >= seen[t])
               \/ (o.side = "SELL" /\ o.price <= seen[t])
            /\ has_sufficient_liquidity(order_books[o.symbol], o.side,
                                        o.quantity, o.price)
    IN  IF fillable
        THEN FilledOnceAt(o, orders'[cur[t]], o.price)
        ELSE LeftResting(o, orders'[cur[t]])

\* The response of a matched or resting order: SUCCESS, with the status and
\* the executed quantity of the order.
MatchedResponse(t) ==
    /\ resp'[t].result = "SUCCESS"
    /\ resp'[t].status = orders[cur[t]].status
    /\ resp'[t].status \in {"FILLED", "SUBMITTED"}
    /\ resp'[t].executed_quantity = orders[cur[t]].filled_quantity
    /\ resp'[t].status = "SUBMITTED" => resp'[t].executed_quantity = 0

\* C9: a valid LIMIT order on a known symbol that passes the risk check is
\* filled at submission iff its limit crosses the best opposing price and
\* has_sufficient_liquidity holds; when filled it has exactly one fill of
\* the full quantity at the limit price and is FILLED, otherwise it has no
\* fill and is SUBMITTED with executed quantity 0; the result is SUCCESS.
C9_LimitMatching ==
    [][\A t \in Clients :
          /\ (/\ SubmitEntry(t, "LIMIT")
              /\ req'[t].quantity <= max_position_size)
                 => Admitted(t)
          /\ (/\ pc[t] = "s_exec"
              /\ pc'[t] # "s_exec"
              /\ orders[cur[t]].type = "LIMIT"
              /\ orders[cur[t]].symbol \in DOMAIN order_books)
                 => pc'[t] = "s_limit"
          /\ (pc[t] = "s_limit" /\ pc'[t] # "s_limit")
                 => (LimitDecision(t) /\ resp'[t].result = "SUCCESS")
          /\ SubmitReturns(t, "LIMIT") => MatchedResponse(t)]_vars

\* submit_order has returned SUCCESS for a LIMIT order of quantity 3 that
\* was filled at its limit across two levels of the book.
C9_Witness ==
    \E t \in Clients :
        /\ pc[t] = "done"
        /\ req[t].op = "submit"
        /\ req[t].order_type = "LIMIT"
        /\ resp[t].result = "SUCCESS"
        /\ resp[t].status = "FILLED"
        /\ resp[t].executed_quantity = 3
        /\ orders[cur[t]].fills = << <<orders[cur[t]].price, 3>> >>

\* C9 as first stated: every valid LIMIT order on a known symbol, whatever
\* its quantity, is matched as above and returns SUCCESS.
C9_LimitMatchingAnyQuantity ==
    [][\A t \in Clients :
          /\ (/\ SubmitEntry(t, "LIMIT"))
                 => Admitted(t)
          /\ (/\ pc[t] = "s_exec"
              /\ pc'[t] # "s_exec"
              /\ orders[cur[t]].type = "LIMIT"
              /\ orders[cur[t]].symbol \in DOMAIN order_books)
                 => pc'[t] = "s_limit"
          /\ (pc[t] = "s_limit" /\ pc'[t] # "s_limit")
                 => (LimitDecision(t) /\ resp'[t].result = "SUCCESS")
          /\ SubmitReturns(t, "LIMIT") => MatchedResponse(t)]_vars

\* The decision of execute_stop_order for the order of thread t: triggered
\* iff the mid price, (best bid + best ask) / 2 in ticks with integer
\* division, has reached the stop price.
StopDecision(t) ==
    LET o == orders[cur[t]]
        mid == (seen[t] + get_best_ask(order_books[o.symbol])) \div 2
        triggered ==
            \/ (o.side = "BUY" /\ mid >= o.stop_price)
            \/ (o.side = "SELL" /\ mid <= o.stop_price)
    IN  IF triggered
        THEN FilledOnceAt(o, orders'[cur[t]], mid)
        ELSE LeftResting(o, orders'[cur[t]])

\* C10: a valid STOP order on a known symbol that passes the risk check
\* triggers at submission iff (BUY and mid >= stop) or (SELL and mid <=
\* stop); when triggered it has exactly one fill of the full quantity at
\* mid and is FILLED, otherwise it has no fill and is SUBMITTED; the result
\* is SUCCESS.
C10_StopMatching ==
    [][\A t \in Clients :
          /\ (/\ SubmitEntry(t, "STOP")
              /\ req'[t].quantity <= max_position_size)
                 => Admitted(t)
          /\ (/\ pc[t] = "s_exec"
              /\ pc'[t] # "s_exec"
              /\ orders[cur[t]].type = "STOP"
              /\ orders[cur[t]].symbol \in DOMAIN order_books)
                 => pc'[t] = "s_stop"
          /\ (pc[t] = "s_stop" /\ pc'[t] # "s_stop")
                 => (StopDecision(t) /\ resp'[t].result = "SUCCESS")
          /\ SubmitReturns(t, "STOP") => MatchedResponse(t)]_vars

\* submit_order has returned SUCCESS for a BUY STOP order that triggered
\* against a book with best bid 2 and best ask 3 and was filled at the mid
\* price of 2 ticks.
C10_Witness ==
    \E t \in Clients :
        /\ pc[t] = "done"
        /\ req[t].op = "submit"
        /\ req[t].order_type = "STOP"
        /\ req[t].side = "BUY"
        /\ resp[t].result = "SUCCESS"
        /\ resp[t].status = "FILLED"
        /\ get_best_bid(order_books[req[t].symbol]) = 2
        /\ get_best_ask(order_books[req[t].symbol]) = 3
        /\ orders[cur[t]].fills = << <<2, 1>> >>

\* C10 as first stated: every valid STOP order on a known symbol, whatever
\* its quantity, is matched as above and returns SUCCESS.
C10_StopMatchingAnyQuantity ==
    [][\A t \in Clients :
          /\ (/\ SubmitEntry(t, "STOP"))
                 => Admitted(t)
          /\ (/\ pc[t] = "s_exec"
              /\ pc'[t] # "s_exec"
              /\ orders[cur[t]].type = "STOP"
              /\ orders[cur[t]].symbol \in DOMAIN order_books)
                 => pc'[t] = "s_stop"
          /\ (pc[t] = "s_stop" /\ pc'[t] # "s_stop")
                 => (StopDecision(t) /\ resp'[t].result = "SUCCESS")
          /\ SubmitReturns(t, "STOP") => MatchedResponse(t)]_vars

\* ------------------------------------------------------------------------
\* SpecMarket: submit_order of market orders by one thread, with the fill
\* callback registered or not, against a two-level book whose levels a
\* feed writes with any price and size, zero included
\* ------------------------------------------------------------------------

MarketRequests ==
    { Request("a", "AAPL", "MARKET", side, q, 0, 0) :
        side \in Sides, q \in {3, 5} }

NextMarket ==
    \/ initialize
    \/ register_fill_callback
    \/ Feed({0, 2, 3}, {0, 2}, {0, 1})
    \/ \E r \in MarketRequests :
          Len(orders) < MaxOrders /\ SubmitAdmit("c1", r)
    \/ MarketStep("c1")
    \/ SubmitRespond("c1")
    \/ Return("c1")

SpecMarket == Init /\ [][NextMarket]_vars

MaxFillQuantity == 5

\* The sum of the sizes of a sequence of fills <<price, size>>.
RECURSIVE FillSizes(_)
FillSizes(fills) ==
    IF fills = << >> THEN 0 ELSE Head(fills)[2] + FillSizes(Tail(fills))

\* The total size of the levels from i up to, not including, the first
\* level that is not valid.
RECURSIVE LeadingSize(_, _)
LeadingSize(levels, i) ==
    IF i >= ORDER_BOOK_DEPTH THEN 0
    ELSE IF ~(levels[i].price > 0 /\ levels[i].size > 0) THEN 0
    ELSE levels[i].size + LeadingSize(levels, i + 1)

\* The total size of all the valid levels from i on.
RECURSIVE ValidSize(_, _)
ValidSize(levels, i) ==
    IF i >= ORDER_BOOK_DEPTH THEN 0
    ELSE (IF levels[i].price > 0 /\ levels[i].size > 0
          THEN levels[i].size ELSE 0)
         + ValidSize(levels, i + 1)

\* The lesser of two quantities.
Least(a, b) == IF b < a THEN b ELSE a

\* The fills are one per level, in level order from level 0, each at the
\* level's price and of at most the level's size.
FillsFollowLevels(fills, levels) ==
    /\ Len(fills) <= ORDER_BOOK_DEPTH
    /\ \A k \in 1 .. Len(fills) :
          /\ fills[k][1] = levels[k - 1].price
          /\ fills[k][2] > 0
          /\ fills[k][2] <= levels[k - 1].size

\* C12: for q >= 0, get_fills_for_market_order(side, q) returns one fill
\* per consumed level, in level order from level 0 of the opposing side,
\* each of at most the level's size, and the sizes sum to min(q, total size
\* of the valid levels that precede the first invalid level); for q < 0 it
\* returns no fill.
C12_FillsOfLeadingLevels ==
    \A symbol \in DOMAIN order_books, side \in Sides :
        LET levels == Opposing(order_books[symbol], side)
        IN  /\ \A q \in 0 .. MaxFillQuantity :
                 LET fills == get_fills_for_market_order(
                                  order_books[symbol], side, q)
                 IN  /\ FillsFollowLevels(fills, levels)
                     /\ FillSizes(fills) = Least(q, LeadingSize(levels, 0))
            /\ get_fills_for_market_order(order_books[symbol], side, -1)
                   = << >>

\* A BUY of 3 has taken two fills, 2 at level 0 and 1 at level 1, from asks
\* of 2 at price 2 and 2 at price 3.
C12_Witness ==
    /\ pc["c1"] = "s_resp"
    /\ req["c1"].side = "BUY"
    /\ req["c1"].quantity = 3
    /\ order_books["AAPL"].asks[0] = [price |-> 2, size |-> 2]
    /\ order_books["AAPL"].asks[1] = [price |-> 3, size |-> 2]
    /\ orders[cur["c1"]].fills = << <<2, 2>>, <<3, 1>> >>

\* C12 as first stated: the sizes of the fills sum to min(q, total size of
\* all the valid levels of the opposing side).
C12_FillsOfAllValidLevels ==
    \A symbol \in DOMAIN order_books, side \in Sides :
        LET levels == Opposing(order_books[symbol], side)
        IN  \A q \in 0 .. MaxFillQuantity :
                LET fills == get_fills_for_market_order(
                                 order_books[symbol], side, q)
                IN  /\ FillsFollowLevels(fills, levels)
                    /\ FillSizes(fills) = Least(q, ValidSize(levels, 0))

\* ------------------------------------------------------------------------
\* Market orders against the simulated book
\* ------------------------------------------------------------------------

\* The simulator wrote level 0 of the asks before the order at index i was
\* admitted.
AskWrittenBefore(i) == sim.ask_from >= 0 /\ sim.ask_from < i

\* C13, for a buy: a MARKET BUY with quantity > 0 on a seed symbol,
\* submitted after the simulator has written level 0 of the asks, returns
\* SUCCESS with status FILLED or PARTIALLY_FILLED and 0 < executed_quantity
\* <= quantity.
C13_MarketOnSimulatedBook ==
    \A t \in Clients :
        (/\ pc[t] = "done"
         /\ req[t].op = "submit"
         /\ req[t].order_type = "MARKET"
         /\ req[t].symbol \in SeedSymbols
         /\ req[t].side = "BUY"
         /\ req[t].quantity > 0
         /\ cur[t] \in 1..Len(orders)
         /\ AskWrittenBefore(cur[t]))
            => (/\ resp[t].result = "SUCCESS"
                /\ resp[t].status \in {"FILLED", "PARTIALLY_FILLED"}
                /\ resp[t].executed_quantity > 0
                /\ resp[t].executed_quantity <= req[t].quantity)

\* ------------------------------------------------------------------------
\* SpecFill: an Order on its own, add_fill applied to it with any valid
\* price and size
\* ------------------------------------------------------------------------

\* Most fills recorded on the order.
MaxFills == 3

FillRequests ==
    { Request("a", "AAPL", "MARKET", side, q, 0, 0) :
        side \in Sides, q \in {2, 6} }

\* Order::Order for one of the requests; no engine call has been made.
InitFill ==
    \E r \in FillRequests :
        /\ initialized = FALSE
        /\ order_books = [s \in {} |-> EmptyBook]
        /\ orders = << NewOrder(r) >>
        /\ active_orders = [i \in OrderIds |-> 0]
        /\ order_queue = << >>
        /\ order_mutex = NoThread
        /\ fill_callback = FALSE
        /\ status_callback = FALSE
        /\ pc = [t \in Clients |-> "idle"]
        /\ req = [t \in Clients |-> NoReq]
        /\ cur = [t \in Clients |-> 0]
        /\ pend = [t \in Clients |-> << >>]
        /\ seen = [t \in Clients |-> 0]
        /\ resp = [t \in Clients |-> NoResp]
        /\ cbEvent = NoEvent
        /\ running = FALSE
        /\ healthy = FALSE
        /\ engine_mutex = NoThread
        /\ worker_threads = << >>
        /\ joined = {}
        /\ wpc = [w \in Workers |-> "unborn"]
        /\ sim = [pc |-> "unborn", joinable |-> FALSE, price |-> 0,
                  cycles |-> 0, ask_from |-> -1]
        /\ lpc = [t \in LThreads |-> "idle"]
        /\ lvar = [t \in LThreads |-> NoCall]
        /\ calls = 0
        /\ crashed = FALSE
        /\ metrics = NoMetrics
        /\ g_engine = FALSE
        /\ ret = NoRet
        /\ order_pool = NewPool
        /\ holding = [t \in Clients |-> {}]

\* A caller of the Order applies add_fill(price, size).
AddFill(price, size) ==
    /\ Len(orders[1].fills) < MaxFills
    /\ orders' = [orders EXCEPT ![1] = add_fill(@, price, size)]
    /\ UNCHANGED <<engineVars, active_orders, order_queue, order_mutex,
                   cbVars, apiVars, clientVars, cbEvent, lifeVars, wpc,
                   poolVars>>

NextFill == \E price \in 1..3, size \in 1..2 : AddFill(price, size)

SpecFill == InitFill /\ [][NextFill]_vars

\* The sum of price * size over a sequence of fills <<price, size>>.
RECURSIVE FillValue(_)
FillValue(fills) ==
    IF fills = << >> THEN 0
    ELSE Head(fills)[1] * Head(fills)[2] + FillValue(Tail(fills))

\* What the truncations of the steps after the first can lose in all: one
\* unit less than the filled quantity reached, at each of those steps.
RECURSIVE TruncationSlack(_)
TruncationSlack(fills) ==
    IF Len(fills) <= 1 THEN 0
    ELSE TruncationSlack(SubSeq(fills, 1, Len(fills) - 1))
         + FillSizes(fills) - 1

\* Sum of price * size of the fills less average * filled quantity.
Deficit(o) == FillValue(o.fills) - o.average_fill_price_ticks * FillSizes(o.fills)

\* C14: each add_fill stores the quotient, truncated to a whole tick, of
\* (old_avg_ticks * old_filled + price_ticks * size) by new_filled, and
\* after it the average is the size-weighted mean of the fill history less
\* what the truncations lost: avg_ticks * sum of sizes is at most the sum of
\* price_ticks * size, and short of it by at most the truncation slack (by
\* nothing after one fill, by less than the filled quantity after two).
C14_AverageFillPrice ==
    [][\A i \in 1..Len(orders) :
          (i <= Len(orders') /\ Len(orders'[i].fills) = Len(orders[i].fills) + 1)
            => LET o == orders[i]
                   n == orders'[i]
                   f == n.fills[Len(n.fills)]
                   sum == o.average_fill_price_ticks * o.filled_quantity
                          + f[1] * f[2]
               IN  /\ n.filled_quantity = o.filled_quantity + f[2]
                   /\ n.filled_quantity = FillSizes(n.fills)
                   /\ n.average_fill_price_ticks * n.filled_quantity <= sum
                   /\ sum < (n.average_fill_price_ticks + 1)
                               * n.filled_quantity
                   /\ Deficit(n) >= 0
                   /\ Deficit(n) <= TruncationSlack(n.fills)
                   /\ Len(n.fills) = 2 => Deficit(n) < n.filled_quantity]_vars

\* Three fills of one unit at 1, 2 and 3 ticks have left the average at
\* 1 tick, a whole tick under their mean of 2.
C14_Witness ==
    /\ Len(orders) = 1
    /\ orders[1].fills = << <<1, 1>>, <<2, 1>>, <<3, 1>> >>
    /\ orders[1].average_fill_price_ticks = 1

\* C14 as stated: after every add_fill the average is the size-weighted mean
\* of the fill history rounded to a whole tick, so that avg_ticks * sum of
\* sizes differs from the sum of price_ticks * size by less than one tick
\* per unit filled.
C14_AverageIsRoundedMean ==
    \A i \in 1..Len(orders) :
        orders[i].fills # << >>
          => /\ Deficit(orders[i]) > -FillSizes(orders[i].fills)
             /\ Deficit(orders[i]) < FillSizes(orders[i].fills)

\* ------------------------------------------------------------------------
\* Lifecycle results
\* ------------------------------------------------------------------------

\* C15: initialize on an engine that is already initialized is a no-op on
\* the books: the set of order books and the (price, size) of every level
\* are after the call what they were before it, also while the engine runs
\* and the simulator has written the books.
C15_RepeatedInitializeKeepsBooks ==
    [][(initialized /\ initialize) => order_books' = order_books]_vars

\* C16: the lifecycle operations are idempotent in their result. Every
\* initialize, the first and each later one, returns SUCCESS; a start()
\* that finds the engine running returns SUCCESS and leaves the worker
\* threads, the simulator thread and worker_threads_ as they are; every
\* stop() that returns returns SUCCESS, whether or not the engine was
\* running.
C16_LifecycleIdempotent ==
    [][/\ ret'.op = "initialize" => ret'.result = "SUCCESS"
       /\ \A t \in LThreads :
             /\ (/\ lpc[t] = "idle"
                 /\ lpc'[t] # "idle"
                 /\ lvar'[t].op = "start"
                 /\ initialized
                 /\ running)
                   => (/\ lpc'[t] = "done"
                       /\ lvar'[t].result = "SUCCESS"
                       /\ wpc' = wpc
                       /\ sim' = sim
                       /\ worker_threads' = worker_threads
                       /\ running')
             /\ (/\ lpc[t] # "done"
                 /\ lpc'[t] = "done"
                 /\ lvar'[t].op = "stop")
                   => lvar'[t].result = "SUCCESS"]_vars

\* A second start() has returned SUCCESS on the running engine, whose two
\* workers and simulator are those of the first, and a repeated initialize
\* has returned SUCCESS after the simulator's write of the bid.
C16_Witness ==
    /\ lpc["l1"] = "done"
    /\ lvar["l1"].op = "start"
    /\ lvar["l1"].result = "SUCCESS"
    /\ calls = 2
    /\ running
    /\ Len(worker_threads) = worker_thread_count
    /\ Cardinality({w \in Workers : wpc[w] # "unborn"}) = worker_thread_count
    /\ sim.pc = "ask"
    /\ ~is_valid(order_books["AAPL"].bids[0])
    /\ ret = [op |-> "initialize", result |-> "SUCCESS"]

\* stop() has returned SUCCESS on an engine that was never started.
C16_WitnessStop ==
    /\ lpc["l2"] = "done"
    /\ lvar["l2"].op = "stop"
    /\ lvar["l2"].result = "SUCCESS"
    /\ calls = 1
    /\ lpc["l1"] = "idle"
    /\ ~running

\* No start() has got as far as setting running_: no engine thread was ever
\* spawned and no start() is past its test of running_.
NeverStarted ==
    /\ \A w \in Workers : wpc[w] = "unborn"
    /\ sim.pc = "unborn"
    /\ \A t \in LThreads : lpc[t] # "st_spawn"

\* C18: with the lifecycle calls made one after another, is_healthy() is
\* false as long as no start() has set the engine running, true when a
\* start() has returned SUCCESS, and false when a stop() has returned.
C18_Health ==
    /\ NeverStarted => ~is_healthy
    /\ \A t \in LThreads :
          /\ (/\ lpc[t] = "done"
              /\ lvar[t].op = "start"
              /\ lvar[t].result = "SUCCESS")
                => (is_healthy /\ running)
          /\ (lpc[t] = "done" /\ lvar[t].op = "stop")
                => (~is_healthy /\ ~running)

\* stop() has returned after a start(): the workers it joined have exited,
\* and is_healthy() is false.
C18_Witness ==
    /\ lpc["l1"] = "done"
    /\ lvar["l1"].op = "stop"
    /\ calls = 2
    /\ wpc[WorkerNames[1]] = "exited"
    /\ sim.pc = "exited"
    /\ ~is_healthy

\* ------------------------------------------------------------------------
\* Rejection at submission
\* ------------------------------------------------------------------------

\* C20: with risk checks enabled, submit_order returns RISK_LIMIT_EXCEEDED
\* exactly when the request passes validation and its quantity is above
\* max_position_size: a request that fails validation returns
\* INVALID_ORDER whatever its quantity, and one of exactly
\* max_position_size is not refused by the risk check.
C20_RiskLimit ==
    \A t \in Clients :
        (pc[t] = "done" /\ req[t].op = "submit")
            => /\ resp[t].result = "RISK_LIMIT_EXCEEDED"
                    <=> (/\ ~FailsValidation(req[t])
                         /\ req[t].quantity > max_position_size)
               /\ FailsValidation(req[t])
                    => resp[t].result = "INVALID_ORDER"

\* A LIMIT BUY of exactly max_position_size has been admitted, has met an
\* ask within its limit and has returned SUCCESS.
C20_Witness ==
    /\ pc["c1"] = "done"
    /\ req["c1"].op = "submit"
    /\ req["c1"].quantity = max_position_size
    /\ cur["c1"] = 1
    /\ orders[1].quantity = max_position_size
    /\ seen["c1"] = 2
    /\ resp["c1"].result = "SUCCESS"

\* C19: a submit_order that validation or the risk check rejects returns
\* at once and leaves the active-orders index, the work queue, every order
\* and order book, and the metrics counters and latency samples as they
\* were, and invokes no callback.
C19_RejectedChangesNothing ==
    [][\A t \in Clients :
          (/\ pc[t] = "idle"
           /\ pc'[t] # "idle"
           /\ req'[t].op = "submit"
           /\ \/ FailsValidation(req'[t])
              \/ req'[t].quantity > max_position_size)
            => (/\ pc'[t] = "done"
                /\ resp'[t].result \in {"INVALID_ORDER", "RISK_LIMIT_EXCEEDED"}
                /\ active_orders' = active_orders
                /\ order_queue' = order_queue
                /\ orders' = orders
                /\ order_books' = order_books
                /\ metrics' = metrics
                /\ cbEvent' = NoEvent)]_vars

\* After an order was admitted, processed and counted in the metrics, a
\* request that fails validation has been rejected; the index, the queue
\* and the counters hold the one order.
C19_Witness ==
    /\ pc["c1"] = "done"
    /\ req["c1"].op = "submit"
    /\ resp["c1"].result = "INVALID_ORDER"
    /\ Len(orders) = 1
    /\ active_orders["a"] = 1
    /\ order_queue = << 1 >>
    /\ "AAPL" \in DOMAIN order_books
    /\ is_valid(order_books["AAPL"].asks[0])
    /\ metrics.total_orders_processed = 1
    /\ Len(metrics.latency_samples) = 1

\* ------------------------------------------------------------------------
\* The C API: engine_* on the process-wide instance g_engine. Every call
\* holds g_engine_mutex from entry to return, so the calls run one at a
\* time: a call begins only when no other is in progress. Lifecycle calls
\* run as thread l1 and order calls as thread c1.
\* ------------------------------------------------------------------------

ApiIdle == ~crashed /\ lpc["l1"] = "idle" /\ pc["c1"] = "idle"

\* A call that changes nothing and reports SUCCESS whatever it found.
ReturnsSuccess(op, result) ==
    /\ ret' = [op |-> op, result |-> "SUCCESS"]
    /\ cbEvent' = NoEvent
    /\ UNCHANGED <<engineVars, orderVars, cbVars, metrics, g_engine,
                   clientVars, lifeVars, wpc, poolVars>>

\* A call that changes nothing returns `result`.
Returns(op, result) ==
    /\ ret' = [op |-> op, result |-> result]
    /\ cbEvent' = NoEvent
    /\ UNCHANGED <<engineVars, orderVars, cbVars, metrics, g_engine,
                   clientVars, lifeVars, wpc, poolVars>>

\* engine_initialize: the instance is created if there is none, then
\* initialize.
engine_initialize ==
    /\ ApiIdle
    /\ StoreBooks
    /\ g_engine' = TRUE

\* engine_start. The instance, once created, is initialized, so that
\* start() does not take its SYSTEM_ERROR return here.
engine_start ==
    /\ ApiIdle
    /\ IF ~g_engine
       THEN Returns("engine_start", "SYSTEM_ERROR")
       ELSE StartAlready("l1") \/ StartBegin("l1")

\* engine_stop: SUCCESS without an instance; else stop() begins.
engine_stop ==
    /\ ApiIdle
    /\ IF ~g_engine
       THEN Returns("engine_stop", "SUCCESS")
       ELSE StopBegin("l1")

\* engine_stop after stop() has returned: g_engine.reset() destroys the
\* engine with its books, orders, callbacks and metrics (the destructor's
\* own stop() finds no thread to join), and the result of stop() is
\* returned. wpc and sim keep the record of the threads that have exited.
EngineDestroy ==
    /\ ~crashed
    /\ g_engine
    /\ lpc["l1"] = "done"
    /\ lvar["l1"].op = "stop"
    /\ g_engine' = FALSE
    /\ ret' = [op |-> "engine_stop", result |-> lvar["l1"].result]
    /\ initialized' = FALSE
    /\ order_books' = [s \in {} |-> EmptyBook]
    /\ orders' = << >>
    /\ active_orders' = [i \in OrderIds |-> 0]
    /\ order_queue' = << >>
    /\ fill_callback' = FALSE
    /\ status_callback' = FALSE
    /\ metrics' = NoMetrics
    /\ lpc' = [lpc EXCEPT !["l1"] = "idle"]
    /\ lvar' = [lvar EXCEPT !["l1"] = NoCall]
    /\ cbEvent' = NoEvent
    /\ UNCHANGED <<order_mutex, clientVars, running, healthy, engine_mutex,
                   worker_threads, joined, wpc, sim, calls, crashed,
                   poolVars>>

\* Requests given to engine_submit_order.
ApiRequests ==
    { Request("a", "AAPL", "MARKET", "BUY", 1, 0, 0),
      Request("a", "AAPL", "MARKET", "SELL", 0, 0, 0),
      Request("a", "AAPL", "MARKET", "BUY", max_position_size + 1, 0, 0) }

\* engine_submit_order with a request and a response
engine_submit_order ==
    /\ ApiIdle
    /\ IF ~g_engine
       THEN Returns("engine_submit_order", "SYSTEM_ERROR")
       ELSE SubmitCall("c1", ApiRequests)

\* engine_cancel_order with an order id. The calls run one at a time, so
\* that an order found here is one whose submit_order has returned.
engine_cancel_order ==
    /\ ApiIdle
    /\ IF ~g_engine
       THEN Returns("engine_cancel_order", "SYSTEM_ERROR")
       ELSE \E id \in OrderIds :
                \/ CancelNotFound("c1", id)
                \/ CancelInactive("c1", id)
                \/ CancelCheck("c1", id)

\* engine_get_order_book with a symbol and a book: get_order_book fails only
\* for a symbol without a book.
engine_get_order_book(symbol) ==
    /\ ApiIdle
    /\ Returns("engine_get_order_book",
               IF ~g_engine THEN "SYSTEM_ERROR"
               ELSE IF symbol \in DOMAIN order_books THEN "SUCCESS"
               ELSE "INVALID_ORDER")

\* engine_get_metrics with a metrics record
engine_get_metrics ==
    /\ ApiIdle
    /\ Returns("engine_get_metrics",
               IF ~g_engine THEN "SYSTEM_ERROR" ELSE "SUCCESS")

\* engine_is_healthy: the int it returns, as "0" or "1".
engine_is_healthy ==
    /\ ApiIdle
    /\ Returns("engine_is_healthy",
               IF g_engine /\ is_healthy THEN "1" ELSE "0")

\* engine_register_fill_callback with a callback
engine_register_fill_callback ==
    /\ ApiIdle
    /\ IF ~g_engine
       THEN Returns("engine_register_fill_callback", "SYSTEM_ERROR")
       ELSE /\ fill_callback' = TRUE
            /\ ret' = [op |-> "engine_register_fill_callback",
                       result |-> "SUCCESS"]
            /\ cbEvent' = NoEvent
            /\ UNCHANGED <<engineVars, orderVars, status_callback, metrics,
                           g_engine, clientVars, lifeVars, wpc,
                   poolVars>>

\* engine_register_status_callback with a callback
engine_register_status_callback ==
    /\ ApiIdle
    /\ IF ~g_engine
       THEN Returns("engine_register_status_callback", "SYSTEM_ERROR")
       ELSE /\ status_callback' = TRUE
            /\ ret' = [op |-> "engine_register_status_callback",
                       result |-> "SUCCESS"]
            /\ cbEvent' = NoEvent
            /\ UNCHANGED <<engineVars, orderVars, fill_callback, metrics,
                           g_engine, clientVars, lifeVars, wpc,
                   poolVars>>

\* SpecApi: the calls of the C API in any order, the engine's threads
\* running between their steps; and start() called on an engine object of
\* its own that was never initialized, while g_engine is empty. The orders
\* submitted are market orders of one unit, which the simulator's single
\* level fills in one step and which are no longer active when a later
\* call cancels them. The simulated price stays where it starts.
NextApi ==
    \/ engine_initialize
    \/ engine_start
    \/ StartSpawn("l1")
    \/ StartSimulator("l1")
    \/ lvar["l1"].op = "start" /\ LifeReturn("l1")
    \/ engine_stop
    \/ StopSteps("l1")
    \/ EngineDestroy
    \/ engine_submit_order
    \/ ExecMarketEmpty("c1")
    \/ ExecMarket("c1")
    \/ SubmitRespond("c1")
    \/ engine_cancel_order
    \/ Return("c1")
    \/ \E symbol \in {"AAPL", "ZZZZ"} : engine_get_order_book(symbol)
    \/ engine_get_metrics
    \/ engine_is_healthy
    \/ engine_register_fill_callback
    \/ engine_register_status_callback
    \/ ~g_engine /\ ~initialized /\ StartUninitialized("l2")
    \/ LifeReturn("l2")
    \/ \E w \in Workers : WorkerStep(w)
    \/ SimLoop
    \/ SimBid(0)
    \/ SimAsk

SpecApi == Init /\ [][NextApi]_vars

\* The instance of the C API, once created, is initialized.
InstanceIsInitialized == g_engine => initialized

\* The calls of the C API that refuse to run without an instance.
NeedInstance ==
    { "engine_start", "engine_submit_order", "engine_cancel_order",
      "engine_get_order_book", "engine_get_metrics",
      "engine_register_fill_callback", "engine_register_status_callback" }

\* C17: while no instance exists (before the first engine_initialize, or
\* after engine_stop has destroyed it), the last call of engine_start,
\* engine_submit_order, engine_cancel_order, engine_get_order_book,
\* engine_get_metrics or a callback registration has returned SYSTEM_ERROR
\* and the last engine_is_healthy has returned 0, and none of them has
\* created an instance or a book; and start() on an engine that was never
\* initialized returns SYSTEM_ERROR, spawns no thread and does not set the
\* engine running.
C17_NoInstance ==
    [][/\ ~g_engine'
          => /\ ret'.op \in NeedInstance => ret'.result = "SYSTEM_ERROR"
             /\ ret'.op = "engine_is_healthy" => ret'.result = "0"
             /\ ~initialized'
             /\ DOMAIN order_books' = {}
       /\ \A t \in LThreads :
             (/\ lpc[t] = "idle"
              /\ lpc'[t] # "idle"
              /\ lvar'[t].op = "start"
              /\ ~initialized)
                => (/\ lpc'[t] = "done"
                    /\ lvar'[t].result = "SYSTEM_ERROR"
                    /\ wpc' = wpc
                    /\ sim' = sim
                    /\ worker_threads' = worker_threads
                    /\ running' = running)]_vars

\* The instance was started and then destroyed by engine_stop, its workers
\* and simulator have exited, and engine_submit_order has since returned
\* SYSTEM_ERROR.
C17_Witness ==
    /\ ~g_engine
    /\ wpc[WorkerNames[1]] = "exited"
    /\ sim.pc = "exited"
    /\ ret = [op |-> "engine_submit_order", result |-> "SYSTEM_ERROR"]

\* start() has returned SYSTEM_ERROR on an engine that was never
\* initialized.
C17_WitnessStart ==
    /\ ~g_engine
    /\ ~initialized
    /\ lpc["l2"] = "done"
    /\ lvar["l2"] = [LifeCall("start") EXCEPT !.result = "SYSTEM_ERROR"]

\* ------------------------------------------------------------------------
\* Orders on a symbol without a book
\* ------------------------------------------------------------------------

Latencies == {1, 2}

\* The snapshot get_metrics starts from (CEngineMetrics metrics = {}).
NoSnapshot ==
    [total_orders_processed |-> 0, successful_executions |-> 0,
     failed_executions |-> 0, total_orders |-> 0,
     average_latency_micros |-> 0, p99_latency_micros |-> 0]

\* What a step of the metrics object leaves alone.
MetricsFrame ==
    /\ cbEvent' = NoEvent
    /\ UNCHANGED <<engineVars, orderVars, cbVars, g_engine, ret, cur, pend,
                   seen, lifeVars, wpc, poolVars>>

\* record_order_processed: total_orders_processed_.fetch_add(1)
RecordTotal(t, latency_micros, success) ==
    /\ pc[t] = "idle"
    /\ metrics.total_orders_processed < MaxRecords
    /\ req' = [req EXCEPT ![t] = [op |-> "record",
                                  latency_micros |-> latency_micros,
                                  success |-> success]]
    /\ metrics' = [metrics EXCEPT !.total_orders_processed = @ + 1]
    /\ pc' = [pc EXCEPT ![t] = "m_latency"]
    /\ UNCHANGED resp
    /\ MetricsFrame

\* record_order_processed: total_latency_micros_.fetch_add(latency_micros)
RecordLatency(t) ==
    /\ pc[t] = "m_latency"
    /\ metrics' = [metrics EXCEPT
                      !.total_latency_micros = @ + req[t].latency_micros]
    /\ pc' = [pc EXCEPT ![t] = "m_outcome"]
    /\ UNCHANGED <<req, resp>>
    /\ MetricsFrame

\* record_order_processed: successful_executions_ or failed_executions_
\* .fetch_add(1)
RecordOutcome(t) ==
    /\ pc[t] = "m_outcome"
    /\ metrics' = IF req[t].success
                  THEN [metrics EXCEPT !.successful_executions = @ + 1]
                  ELSE [metrics EXCEPT !.failed_executions = @ + 1]
    /\ pc' = [pc EXCEPT ![t] = "m_lock"]
    /\ UNCHANGED <<req, resp>>
    /\ MetricsFrame

\* record_order_processed: lock_guard on latency_mutex_
RecordLock(t) ==
    /\ pc[t] = "m_lock"
    /\ metrics.latency_mutex = NoThread
    /\ metrics' = [metrics EXCEPT !.latency_mutex = t]
    /\ pc' = [pc EXCEPT ![t] = "m_push"]
    /\ UNCHANGED <<req, resp>>
    /\ MetricsFrame

\* record_order_processed: push_back and erase under the guard, then the
\* guard is released and the call returns.
RecordPush(t) ==
    /\ pc[t] = "m_push"
    /\ metrics' = [metrics EXCEPT
                      !.latency_samples =
                          PushSample(@, req[t].latency_micros),
                      !.latency_mutex = NoThread]
    /\ pc' = [pc EXCEPT ![t] = "idle"]
    /\ req' = [req EXCEPT ![t] = NoReq]
    /\ UNCHANGED resp
    /\ MetricsFrame

\* get_metrics: total_orders_processed_.load()
GetTotal(t) ==
    /\ pc[t] = "idle"
    /\ req' = [req EXCEPT ![t] = [op |-> "get_metrics"]]
    /\ resp' = [resp EXCEPT ![t] =
                  [NoSnapshot EXCEPT !.total_orders_processed =
                                         metrics.total_orders_processed]]
    /\ pc' = [pc EXCEPT ![t] = "g_successful"]
    /\ UNCHANGED metrics
    /\ MetricsFrame

\* get_metrics: successful_executions_.load()
GetSuccessful(t) ==
    /\ pc[t] = "g_successful"
    /\ resp' = [resp EXCEPT ![t].successful_executions =
                                 metrics.successful_executions]
    /\ pc' = [pc EXCEPT ![t] = "g_failed"]
    /\ UNCHANGED <<req, metrics>>
    /\ MetricsFrame

\* get_metrics: failed_executions_.load()
GetFailed(t) ==
    /\ pc[t] = "g_failed"
    /\ resp' = [resp EXCEPT ![t].failed_executions =
                                 metrics.failed_executions]
    /\ pc' = [pc EXCEPT ![t] = "g_count"]
    /\ UNCHANGED <<req, metrics>>
    /\ MetricsFrame

\* get_metrics: total_orders = total_orders_processed_.load()
GetCount(t) ==
    /\ pc[t] = "g_count"
    /\ resp' = [resp EXCEPT ![t].total_orders =
                                 metrics.total_orders_processed]
    /\ pc' = [pc EXCEPT ![t] = "g_average"]
    /\ UNCHANGED <<req, metrics>>
    /\ MetricsFrame

\* get_metrics: average latency = total_latency_micros_.load() /
\* total_orders when total_orders > 0 (kept in units of 1 / RealScale).
GetAverage(t) ==
    /\ pc[t] = "g_average"
    /\ resp' = [resp EXCEPT ![t].average_latency_micros =
                    IF resp[t].total_orders > 0
                    THEN (metrics.total_latency_micros * RealScale)
                             \div resp[t].total_orders
                    ELSE 0]
    /\ pc' = [pc EXCEPT ![t] = "g_lock"]
    /\ UNCHANGED <<req, metrics>>
    /\ MetricsFrame

\* get_metrics: lock_guard on latency_mutex_
GetLock(t) ==
    /\ pc[t] = "g_lock"
    /\ metrics.latency_mutex = NoThread
    /\ metrics' = [metrics EXCEPT !.latency_mutex = t]
    /\ pc' = [pc EXCEPT ![t] = "g_p99"]
    /\ UNCHANGED <<req, resp>>
    /\ MetricsFrame

\* The sample at index size * 0.99 (from 0) of the sorted samples, 0 for an
\* empty vector.
P99(samples) ==
    LET n == Len(samples)
        p99_index == (n * 99) \div 100
        Below(x) == Cardinality({i \in 1 .. n : samples[i] < x})
        UpTo(x) == Cardinality({i \in 1 .. n : samples[i] <= x})
    IN  IF n = 0 THEN 0
        ELSE CHOOSE x \in {samples[i] : i \in 1 .. n} :
                 Below(x) <= p99_index /\ p99_index < UpTo(x)

\* get_metrics: the samples are copied and sorted under the guard, the P99
\* taken, the guard released and the snapshot returned.
GetP99(t) ==
    /\ pc[t] = "g_p99"
    /\ resp' = [resp EXCEPT ![t].p99_latency_micros =
                                 P99(metrics.latency_samples)]
    /\ metrics' = [metrics EXCEPT !.latency_mutex = NoThread]
    /\ pc' = [pc EXCEPT ![t] = "done"]
    /\ UNCHANGED req
    /\ MetricsFrame

NextMetrics ==
    \E t \in Clients :
        \/ \E latency_micros \in Latencies, success \in BOOLEAN :
              RecordTotal(t, latency_micros, success)
        \/ RecordLatency(t)
        \/ RecordOutcome(t)
        \/ RecordLock(t)
        \/ RecordPush(t)
        \/ GetTotal(t)
        \/ GetSuccessful(t)
        \/ GetFailed(t)
        \/ GetCount(t)
        \/ GetAverage(t)
        \/ GetLock(t)
        \/ GetP99(t)
        \/ Return(t)

SpecMetrics == Init /\ [][NextMetrics]_vars

\* C22: a snapshot returned by get_metrics has
\* successful_executions + failed_executions = total_orders_processed,
\* also when another thread is inside record_order_processed.
C22_SnapshotConsistent ==
    \A t \in Clients :
        (pc[t] = "done" /\ req[t].op = "get_metrics")
            => resp[t].successful_executions + resp[t].failed_executions
                   = resp[t].total_orders_processed

\* C24: the sample vector never holds more than MaxSamples samples; a
\* record_order_processed call appends its sample at the end and, when the
\* vector was full, drops the oldest; nothing else changes the vector.
C24_RecentSamples ==
    [][/\ Len(metrics'.latency_samples) <= MaxSamples
       /\ \A t \in Clients :
             (pc[t] = "m_push" /\ pc'[t] # "m_push")
                 => metrics'.latency_samples =
                        IF Len(metrics.latency_samples) < MaxSamples
                        THEN Append(metrics.latency_samples,
                                    req[t].latency_micros)
                        ELSE Append(Tail(metrics.latency_samples),
                                    req[t].latency_micros)
       /\ (\A t \in Clients : pc[t] # "m_push")
             => metrics'.latency_samples = metrics.latency_samples]_vars

\* More calls than the vector holds have returned; the vector is full and
\* its oldest and newest samples differ.
C24_Witness ==
    /\ \A t \in Clients : pc[t] = "idle"
    /\ metrics.total_orders_processed > MaxSamples
    /\ Len(metrics.latency_samples) = MaxSamples
    /\ metrics.latency_samples[1] = 2
    /\ metrics.latency_samples[MaxSamples] = 1
    /\ metrics.total_latency_micros = metrics.total_orders_processed
                                          + 1

\* ------------------------------------------------------------------------
\* SpecCount: two threads submit market orders that fill, find no liquidity
\* or find no book, and requests that are rejected
\* ------------------------------------------------------------------------

CountRequests ==
    { Request("a", "AAPL", "MARKET", "BUY", 3, 0, 0),
      Request("b", "ZZZZ", "MARKET", "BUY", 1, 0, 0),
      Request("b", "AAPL", "STOP_LIMIT", "BUY", 1, 2, 2),
      Request("a", "AAPL", "MARKET", "BUY", 0, 0, 0),
      Request("a", "AAPL", "MARKET", "BUY", max_position_size + 1, 0, 0) }

NextCount ==
    \/ initialize
    \/ Feed({2}, {2}, {0, 1})
    \/ \E t \in Clients :
          \/ \E r \in CountRequests :
                \/ SubmitInvalid(t, r)
                \/ SubmitRisk(t, r)
                \/ Len(orders) < MaxCounted /\ SubmitAdmit(t, r)
          \/ CommonStep(t)
          \/ MarketStep(t)

SpecCount == Init /\ [][NextCount]_vars

\* Orders whose submit_order has not yet recorded its outcome.
InFlight ==
    {cur[t] : t \in {c \in Clients : /\ req[c].op = "submit"
                                     /\ pc[c] \notin {"idle", "done"}}}

\* C23: a submit_order that passed validation and the risk check adds one
\* to total_orders_processed, and one to successful_executions when its
\* result is SUCCESS and to failed_executions otherwise; nothing else
\* changes the three counters, so n such submissions leave
\* total_orders_processed = n.
C23_CountedOnce ==
    [][/\ \A t \in Clients :
             (pc[t] = "s_resp" /\ pc'[t] = "done")
                 => LET success == resp'[t].result = "SUCCESS"
                    IN  /\ metrics'.total_orders_processed =
                               metrics.total_orders_processed + 1
                        /\ metrics'.successful_executions =
                               metrics.successful_executions
                                   + (IF success THEN 1 ELSE 0)
                        /\ metrics'.failed_executions =
                               metrics.failed_executions
                                   + (IF success THEN 0 ELSE 1)
       /\ (\A t \in Clients : ~(pc[t] = "s_resp" /\ pc'[t] = "done"))
             => /\ metrics'.total_orders_processed =
                       metrics.total_orders_processed
                /\ metrics'.successful_executions =
                       metrics.successful_executions
                /\ metrics'.failed_executions = metrics.failed_executions
       /\ metrics'.total_orders_processed
             = Len(orders') - Cardinality(InFlight')]_vars

\* MaxCounted submissions have been processed, two of them by different
\* threads at once: one filled, the others failed.
C23_Witness ==
    /\ \A t \in Clients : pc[t] = "done" /\ req[t].op = "submit"
    /\ resp["c1"].result = "SUCCESS"
    /\ resp["c2"].result = "INVALID_ORDER"
    /\ Len(orders) = MaxCounted
    /\ cur["c1"] < cur["c2"]
    /\ metrics.total_orders_processed = MaxCounted
    /\ metrics.successful_executions = 1
    /\ metrics.failed_executions = MaxCounted - 1

\* ------------------------------------------------------------------------
\* Callbacks
\* ------------------------------------------------------------------------

\* C25: whenever the fill callback or the status callback is invoked, the
\* invoking thread holds neither order_mutex_ nor engine_mutex_.
C25_CallbacksOutsideGuards ==
    cbEvent.kind \in {"fill", "status"}
        => (~cbEvent.order_mutex_held /\ engine_mutex # cbEvent.thread)

\* The fill just recorded on the order of thread t.
NewFill(t) == orders'[cur[t]].fills[Len(orders'[cur[t]].fills)]

\* Thread t records a fill on its order in this step.
FillStep(t) ==
    /\ cur[t] \in 1 .. Len(orders)
    /\ orders'[cur[t]].fills # orders[cur[t]].fills

\* C26: each fill that execute_market_order records on the order is
\* followed, in the same iteration and before submit_order returns, by one
\* invocation of the registered fill callback carrying that fill's price
\* and size; the fills are recorded in level order from level 0 of the
\* book as it was walked; the fill callback is invoked at no other moment.
C26_CallbackPerFill ==
    [][/\ \A t \in Clients :
             FillStep(t)
                 => /\ orders'[cur[t]].fills =
                           Append(orders[cur[t]].fills, NewFill(t))
                    /\ pc'[t] \in {"s_fill", "s_resp"}
                    /\ pc[t] = "s_exec"
                           => FillsFollowLevels(
                                  <<NewFill(t)>> \o pend'[t],
                                  Opposing(order_books[orders[cur[t]].symbol],
                                           orders[cur[t]].side))
                    /\ pc[t] = "s_fill"
                           => /\ NewFill(t) = Head(pend[t])
                              /\ pend'[t] = Tail(pend[t])
                    /\ pc'[t] = "s_resp" <=> pend'[t] = << >>
                    /\ IF fill_callback
                       THEN /\ cbEvent'.kind = "fill"
                            /\ cbEvent'.thread = t
                            /\ cbEvent'.order_id = orders[cur[t]].order_id
                            /\ cbEvent'.price = PriceToReal(NewFill(t)[1])
                            /\ cbEvent'.quantity = NewFill(t)[2]
                       ELSE cbEvent' = NoEvent
       /\ cbEvent'.kind = "fill"
             => \E t \in Clients :
                    FillStep(t) /\ orders[cur[t]].type = "MARKET"]_vars

\* With the callback registered, a BUY of 3 has recorded its second fill,
\* 1 at the price of level 1, and the callback has just been invoked with
\* it.
C26_Witness ==
    /\ pc["c1"] = "s_resp"
    /\ fill_callback
    /\ req["c1"].quantity = 3
    /\ Len(orders[1].fills) = 2
    /\ orders[1].fills[1] = <<2, 2>>
    /\ orders[1].fills[2] = <<3, 1>>
    /\ cbEvent.kind = "fill"
    /\ cbEvent.price = PriceToReal(3)
    /\ cbEvent.quantity = 1

\* ------------------------------------------------------------------------
\* ExecutionEngine::get_order_book beside a writer of the book
\* ------------------------------------------------------------------------
\* Each of get_best_bid, get_best_ask, get_bid_size and get_ask_size holds
\* the book's guard for its one read; get_order_book makes its reads one
\* call after another.  The engine is initialized once in these runs.

\* OrderBook::get_bid_size / get_ask_size
get_bid_size(book, level) ==
    IF level >= ORDER_BOOK_DEPTH THEN 0 ELSE book.bids[level].size

get_ask_size(book, level) ==
    IF level >= ORDER_BOOK_DEPTH THEN 0 ELSE book.asks[level].size

\* A value not yet read.
NoRead == -1

\* The best price of one side of the source book.
BestPrice(book, side) ==
    IF side = "BID" THEN get_best_bid(book) ELSE get_best_ask(book)

\* The size of level 0 of one side of the source book.
BestSize(book, side) ==
    IF side = "BID" THEN get_bid_size(book, 0) ELSE get_ask_size(book, 0)

\* get_order_book: the symbol is looked up; without a book the call returns
\* INVALID_ORDER, otherwise it goes on to the bid side.
BookCall(t, symbol) ==
    /\ pc[t] = "idle"
    /\ req' = [req EXCEPT ![t] = [op |-> "get_order_book",
                                  symbol |-> symbol]]
    /\ IF symbol \in DOMAIN order_books
       THEN /\ pc' = [pc EXCEPT ![t] = "b_test"]
            /\ resp' = [resp EXCEPT ![t] =
                          [result |-> "SUCCESS", book |-> EmptyBook,
                           side |-> "BID", price |-> NoRead,
                           size |-> NoRead]]
       ELSE /\ pc' = [pc EXCEPT ![t] = "done"]
            /\ resp' = [resp EXCEPT ![t] =
                          [result |-> "INVALID_ORDER", book |-> EmptyBook,
                           side |-> "none", price |-> NoRead,
                           size |-> NoRead]]
    /\ cbEvent' = NoEvent
    /\ UNCHANGED <<engineVars, orderVars, cbVars, apiVars, cur, pend, seen,
                   lifeVars, wpc, poolVars>>

\* After a side: the ask side follows the bid side, the return follows the
\* ask side.
BookAdvance(t, book) ==
    IF resp[t].side = "BID"
    THEN /\ resp' = [resp EXCEPT ![t].book = book, ![t].side = "ASK",
                                 ![t].price = NoRead, ![t].size = NoRead]
         /\ pc' = [pc EXCEPT ![t] = "b_test"]
    ELSE /\ resp' = [resp EXCEPT ![t].book = book, ![t].side = "none",
                                 ![t].price = NoRead, ![t].size = NoRead]
         /\ pc' = [pc EXCEPT ![t] = "done"]

\* get_order_book: the test source.get_best_bid().ticks() > 0 (or ask)
BookTest(t) ==
    /\ pc[t] = "b_test"
    /\ IF BestPrice(order_books[req[t].symbol], resp[t].side) > 0
       THEN /\ pc' = [pc EXCEPT ![t] = "b_args"]
            /\ UNCHANGED resp
       ELSE BookAdvance(t, resp[t].book)
    /\ cbEvent' = NoEvent
    /\ UNCHANGED <<engineVars, orderVars, cbVars, apiVars, req, cur, pend,
                   seen, lifeVars, wpc, poolVars>>

\* The output book after update_bid / update_ask with the two arguments.
BookCopy(book, side, price, size) ==
    IF side = "BID" THEN update_bid(book, price, size, 0)
                    ELSE update_ask(book, price, size, 0)

\* get_order_book: one of the two arguments of book.update_bid (or
\* update_ask) is evaluated, in either order; with both evaluated the level
\* is written to the output book.
BookRead(t, field) ==
    /\ pc[t] = "b_args"
    /\ resp[t][field] = NoRead
    /\ LET source == order_books[req[t].symbol]
           read == IF field = "price" THEN BestPrice(source, resp[t].side)
                                      ELSE BestSize(source, resp[t].side)
           price == IF field = "price" THEN read ELSE resp[t].price
           size == IF field = "size" THEN read ELSE resp[t].size
       IN  IF price # NoRead /\ size # NoRead
           THEN BookAdvance(t, BookCopy(resp[t].book, resp[t].side,
                                        price, size))
           ELSE /\ resp' = [resp EXCEPT ![t][field] = read]
                /\ UNCHANGED pc
    /\ cbEvent' = NoEvent
    /\ UNCHANGED <<engineVars, orderVars, cbVars, apiVars, req, cur, pend,
                   seen, lifeVars, wpc, poolVars>>

\* A writer whose every write stores a level with as many ticks as units of
\* size, so that any level the book has held is (v, v).
PairedFeed(Values) ==
    \E symbol \in SeedSymbols, side \in {"BID", "ASK"}, v \in Values :
        FeedWrite(symbol, side, v, v, 0)

NextBook ==
    \/ ~initialized /\ initialize
    \/ PairedFeed({0, 2, 3})
    \/ \E t \in Clients :
          \/ \E symbol \in {"AAPL", "ZZZZ"} : BookCall(t, symbol)
          \/ BookTest(t)
          \/ \E field \in {"price", "size"} : BookRead(t, field)
          \/ Return(t)

SpecBook == Init /\ [][NextBook]_vars

\* C27: the (price, size) pair that get_order_book copies for level 0 of a
\* side is a pair the level has held: with a writer that stores (v, v)
\* only, the copied level has as many ticks as units of size.
C27_NoTornLevel ==
    \A t \in Clients :
        (pc[t] = "done" /\ req[t].op = "get_order_book")
            => /\ resp[t].book.bids[0].price = resp[t].book.bids[0].size
               /\ resp[t].book.asks[0].price = resp[t].book.asks[0].size

\* ------------------------------------------------------------------------
\* The simulator's books
\* ------------------------------------------------------------------------

\* C28: while the simulator is not between its update_bid and its
\* update_ask, every book whose best bid and best ask are both set
\* (ticks > 0) has best ask >= best bid.
C28_UncrossedAtRest ==
    \A symbol \in DOMAIN order_books :
        (/\ sim.pc # "ask"
         /\ get_best_bid(order_books[symbol]) > 0
         /\ get_best_ask(order_books[symbol]) > 0)
            => get_best_ask(order_books[symbol])
                   >= get_best_bid(order_books[symbol])

\* The simulator has finished a cycle in which the price moved; bid and ask
\* of AAPL are those of the new price.
C28_Witness ==
    /\ sim.pc = "loop"
    /\ sim.cycles >= 1
    /\ sim.price # AAPL_START * TICK_PRECISION
    /\ "AAPL" \in DOMAIN order_books
    /\ get_best_bid(order_books["AAPL"]) = Scale(sim.price, 999, 1000)
    /\ get_best_ask(order_books["AAPL"]) = Scale(sim.price, 1001, 1000)
    /\ get_best_ask(order_books["AAPL"]) > get_best_bid(order_books["AAPL"])

\* C29: the status callback is invoked only in the step in which a
\* cancel_order call succeeds, for the order it cancels; no step of
\* submit_order and no failing cancel_order invokes it.
C29_StatusOnlyOnCancel ==
    [][/\ cbEvent'.kind = "status"
             => \E t \in Clients :
                    /\ req[t].op = "cancel"
                    /\ pc[t] = "c_commit"
                    /\ pc'[t] = "done"
                    /\ resp'[t].result = "SUCCESS"
                    /\ cbEvent'.thread = t
                    /\ cbEvent'.order_id = req[t].order_id
                    /\ cbEvent'.status = "CANCELLED"
                    /\ orders'[cur[t]].status = "CANCELLED"
       /\ \A t \in Clients :
             (/\ pc[t] # "done"
              /\ pc'[t] = "done"
              /\ \/ req'[t].op = "submit"
                 \/ resp'[t].result # "SUCCESS")
                 => cbEvent'.kind # "status"]_vars

\* With the status callback registered, a cancel_order of an order that
\* is no longer active has returned INVALID_ORDER without an invocation.
C29_Witness ==
    /\ status_callback
    /\ \E t \in Clients :
          /\ pc[t] = "done"
          /\ req[t].op = "cancel"
          /\ resp[t].result = "INVALID_ORDER"
    /\ cbEvent = NoEvent

\* With the status callback registered, a cancel_order has succeeded and
\* the callback has been invoked for its order.
C29_WitnessInvoked ==
    /\ cbEvent.kind = "status"
    /\ pc[cbEvent.thread] = "done"
    /\ resp[cbEvent.thread].result = "SUCCESS"

\* ------------------------------------------------------------------------
\* OrderBook::has_sufficient_liquidity
\* ------------------------------------------------------------------------

\* Quantities and limit prices (ticks) the function is asked about.
LiquidityQuantities == -1 .. MaxFillQuantity
LiquidityLimits == 1 .. 4

\* A level an order of `side` with limit `limit` may trade against.
Acceptable(level, side, limit) ==
    /\ level.price > 0
    /\ level.size > 0
    /\ IF side = "BUY" THEN level.price <= limit ELSE level.price >= limit

\* The size of the levels from i up to the first that is not acceptable.
RECURSIVE AcceptableSize(_, _, _, _)
AcceptableSize(levels, side, limit, i) ==
    IF i >= ORDER_BOOK_DEPTH \/ ~Acceptable(levels[i], side, limit) THEN 0
    ELSE levels[i].size + AcceptableSize(levels, side, limit, i + 1)

\* C30: has_sufficient_liquidity(side, qty, limit) is true iff the sizes of
\* the opposing levels from level 0 up to the first invalid or out-of-limit
\* level sum to at least qty and, for qty <= 0, level 0 is one of them.
C30_LiquidityOfPrefix ==
    \A symbol \in DOMAIN order_books, side \in Sides,
       qty \in LiquidityQuantities, limit \in LiquidityLimits :
        LET levels == Opposing(order_books[symbol], side)
        IN  has_sufficient_liquidity(order_books[symbol], side, qty, limit)
                <=> /\ AcceptableSize(levels, side, limit, 0) >= qty
                    /\ Acceptable(levels[0], side, limit)

\* A LIMIT BUY of 3 at 3 ticks has been filled against asks of 2 at 2
\* ticks and 2 at 3 ticks: the sizes of both levels were needed.
C30_Witness ==
    /\ pc["c1"] = "s_resp"
    /\ orders[1].type = "LIMIT"
    /\ orders[1].side = "BUY"
    /\ orders[1].quantity = 3
    /\ orders[1].price = 3
    /\ orders[1].status = "FILLED"
    /\ order_books["AAPL"].asks[0] = [price |-> 2, size |-> 2]
    /\ order_books["AAPL"].asks[1] = [price |-> 3, size |-> 2]
    /\ has_sufficient_liquidity(order_books["AAPL"], "BUY", 3, 3)
    /\ ~has_sufficient_liquidity(order_books["AAPL"], "BUY", 3, 2)

\* C30 as stated: true iff the size accumulated over the prefix is >= qty,
\* whatever qty is.
C30_LiquidityIffAccumulated ==
    \A symbol \in DOMAIN order_books, side \in Sides,
       qty \in LiquidityQuantities, limit \in LiquidityLimits :
        has_sufficient_liquidity(order_books[symbol], side, qty, limit)
            <=> AcceptableSize(Opposing(order_books[symbol], side),
                               side, limit, 0) >= qty

\* ------------------------------------------------------------------------
\* The active-orders index
\* ------------------------------------------------------------------------

\* No submit_order or cancel_order call is under way.
NoCallUnderWay == \A t \in Clients : pc[t] \in {"idle", "done"}

\* The ids the index holds an order for (active_orders_.size() counts them).
Indexed == {id \in OrderIds : active_orders[id] # 0}

\* C31: between calls, every order held in the active-orders index has
\* status SUBMITTED or PARTIALLY_FILLED, so the size of the index is the
\* number of active orders.
C31_IndexHoldsActiveOrders ==
    NoCallUnderWay
        => /\ \A id \in Indexed :
                 orders[active_orders[id]].status
                     \in {"SUBMITTED", "PARTIALLY_FILLED"}
           /\ Cardinality(Indexed)
                 = Cardinality({i \in 1 .. Len(orders) :
                                   orders[i].status
                                       \in {"SUBMITTED", "PARTIALLY_FILLED"}})

\* ------------------------------------------------------------------------
\* SpecReuse: one thread submits limit orders, with ids that may repeat,
\* against books nobody writes; another thread cancels
\* ------------------------------------------------------------------------

ReuseRequests ==
    { Request(id, "AAPL", "LIMIT", side, 1, 15, 0) :
        id \in OrderIds, side \in Sides }

NextReuse ==
    \/ initialize
    \/ \E r \in ReuseRequests :
          Len(orders) < MaxCounted /\ SubmitAdmit("c1", r)
    \/ ExecNoBook("c1")
    \/ LimitStep("c1")
    \/ SubmitRespond("c1")
    \/ CancelCall("c2")
    \/ \E t \in Clients : Return(t)

SpecReuse == Init /\ [][NextReuse]_vars

\* C32: between calls, every order whose status is SUBMITTED or
\* PARTIALLY_FILLED is the order the active-orders index holds under its
\* id.
C32_ActiveOrdersAreIndexed ==
    NoCallUnderWay
        => \A i \in 1 .. Len(orders) :
               orders[i].status \in {"SUBMITTED", "PARTIALLY_FILLED"}
                   => active_orders[orders[i].order_id] = i

\* ------------------------------------------------------------------------
\* SpecFrame: one thread submits market, limit and stop orders one after
\* another against a book a feed writes; another thread cancels
\* ------------------------------------------------------------------------

FrameRequests ==
    { Request("a", "AAPL", "MARKET", "BUY", 3, 0, 0),
      Request("a", "AAPL", "LIMIT", "BUY", 1, 20, 0),
      Request("b", "AAPL", "STOP", "BUY", 1, 0, 20) }

NextFrame ==
    \/ initialize
    \/ Feed({2}, {2}, {0, 1})
    \/ \E r \in FrameRequests :
          Len(orders) < MaxCounted /\ SubmitAdmit("c1", r)
    \/ ExecNoBook("c1")
    \/ MarketStep("c1")
    \/ LimitStep("c1")
    \/ StopStep("c1")
    \/ SubmitRespond("c1")
    \/ CancelCall("c2")
    \/ \E t \in Clients : Return(t)

SpecFrame == Init /\ [][NextFrame]_vars

\* A step of a submit_order or cancel_order call by thread t.
CallStep(t) == pc'[t] # pc[t] \/ pend'[t] # pend[t]

\* C33: no step of submit_order or of cancel_order changes a level of any
\* order book or the set of books.
C33_CallsLeaveBooks ==
    [][(\E t \in Clients : CallStep(t)) => order_books' = order_books]_vars

\* Two MARKET BUY orders of 3 have each been filled from the same ask
\* levels of 2 and 2, which are still in the book.
C33_Witness ==
    /\ Len(orders) >= 2
    /\ pc["c1"] = "done"
    /\ \A i \in 1 .. 2 :
          /\ orders[i].type = "MARKET"
          /\ orders[i].status = "FILLED"
          /\ orders[i].fills = << <<2, 2>>, <<2, 1>> >>
    /\ order_books["AAPL"].asks[0] = [price |-> 2, size |-> 2]
    /\ order_books["AAPL"].asks[1] = [price |-> 2, size |-> 2]

\* ------------------------------------------------------------------------
\* Fills
\* ------------------------------------------------------------------------

\* C34: every fill recorded on an order has a size > 0 and a price of more
\* than 0 ticks.
C34_FillsArePositive ==
    \A i \in 1 .. Len(orders) :
        \A k \in 1 .. Len(orders[i].fills) :
            /\ orders[i].fills[k][1] > 0
            /\ orders[i].fills[k][2] > 0

\* ------------------------------------------------------------------------
\* Workers and the work queue
\* ------------------------------------------------------------------------

\* C35: a step of a worker (from any point of its loop but the blocked
\* wait, which another thread's notify ends) leaves every order and the
\* active-orders index as they were; only a worker takes orders off the work queue; and an
\* order changes only in a step of the matching routine of the thread
\* that submitted it.
C35_WorkersOnlyDequeue ==
    [][/\ (\E w \in Workers :
               /\ wpc[w] \in {"loop", "lock", "woken", "prewait", "awake"}
               /\ wpc'[w] # wpc[w])
             => (orders' = orders /\ active_orders' = active_orders)
       /\ Len(order_queue') < Len(order_queue)
             => \E w \in Workers : wpc[w] = "awake" /\ wpc'[w] = "loop"
       /\ \A i \in 1 .. Len(orders) :
             orders'[i] # orders[i]
                 => \E t \in Clients :
                        /\ cur[t] = i
                        /\ req[t].op = "submit"
                        /\ pc[t] \in {"s_exec", "s_fill"}
                        /\ pc'[t] # pc[t]]_vars

\* A worker has taken the order off the work queue after the submitting
\* thread filled it; the order is still FILLED with its one fill and still
\* in the index.
C35_Witness ==
    /\ Len(orders) = 1
    /\ order_queue = << >>
    /\ \E w \in Workers : wpc[w] = "loop"
    /\ pc["c1"] = "s_resp"
    /\ orders[1].status = "FILLED"
    /\ Len(orders[1].fills) = 1
    /\ active_orders[orders[1].order_id] = 1

\* ------------------------------------------------------------------------
\* MemoryPool<T>::acquire / release
\* ------------------------------------------------------------------------
\* One pool and the threads of Clients as its callers.  A caller releases
\* only an entry it holds.  The null pointer is 0.

PoolFrame ==
    /\ cbEvent' = NoEvent
    /\ UNCHANGED <<engineVars, orderVars, cbVars, apiVars, cur, pend, seen,
                   lifeVars, wpc>>

\* acquire: lock_guard on mutex_
AcquireLock(t) ==
    /\ pc[t] = "idle"
    /\ order_pool.mutex = NoThread
    /\ order_pool' = [order_pool EXCEPT !.mutex = t]
    /\ pc' = [pc EXCEPT ![t] = "p_acquire"]
    /\ req' = [req EXCEPT ![t] = [op |-> "acquire"]]
    /\ UNCHANGED <<resp, holding>>
    /\ PoolFrame

\* An acquire that returns the front entry and leaves it on the free list.
AcquireTakeWithoutPop(t) ==
    /\ pc[t] = "p_acquire"
    /\ IF order_pool.available = << >>
       THEN /\ resp' = [resp EXCEPT ![t] = [ptr |-> 0]]
            /\ UNCHANGED holding
       ELSE /\ resp' = [resp EXCEPT ![t] =
                          [ptr |-> Head(order_pool.available)]]
            /\ holding' = [holding EXCEPT ![t] =
                              @ \cup {Head(order_pool.available)}]
    /\ order_pool' = [order_pool EXCEPT !.mutex = NoThread]
    /\ pc' = [pc EXCEPT ![t] = "done"]
    /\ UNCHANGED req
    /\ PoolFrame

\* acquire under the guard: nullptr when available_ is empty, else the
\* front entry, which is popped; the guard is released on return.
AcquireTake(t) ==
    /\ pc[t] = "p_acquire"
    /\ IF order_pool.available = << >>
       THEN /\ resp' = [resp EXCEPT ![t] = [ptr |-> 0]]
            /\ order_pool' = [order_pool EXCEPT !.mutex = NoThread]
            /\ UNCHANGED holding
       ELSE /\ resp' = [resp EXCEPT ![t] =
                          [ptr |-> Head(order_pool.available)]]
            /\ order_pool' = [order_pool EXCEPT !.available = Tail(@),
                                                !.mutex = NoThread]
            /\ holding' = [holding EXCEPT ![t] =
                              @ \cup {Head(order_pool.available)}]
    /\ pc' = [pc EXCEPT ![t] = "done"]
    /\ UNCHANGED req
    /\ PoolFrame

\* release(ptr): lock_guard on mutex_
ReleaseLock(t, ptr) ==
    /\ pc[t] = "idle"
    /\ ptr \in holding[t]
    /\ order_pool.mutex = NoThread
    /\ order_pool' = [order_pool EXCEPT !.mutex = t]
    /\ pc' = [pc EXCEPT ![t] = "p_release"]
    /\ req' = [req EXCEPT ![t] = [op |-> "release", ptr |-> ptr]]
    /\ UNCHANGED <<resp, holding>>
    /\ PoolFrame

\* release under the guard: available_.push(ptr); the guard is released
\* and the call returns.
ReleasePush(t) ==
    /\ pc[t] = "p_release"
    /\ order_pool' = [order_pool EXCEPT
                         !.available = Append(@, req[t].ptr),
                         !.mutex = NoThread]
    /\ holding' = [holding EXCEPT ![t] = @ \ {req[t].ptr}]
    /\ pc' = [pc EXCEPT ![t] = "idle"]
    /\ req' = [req EXCEPT ![t] = NoReq]
    /\ UNCHANGED resp
    /\ PoolFrame

NextPool ==
    \E t \in Clients :
        \/ AcquireLock(t)
        \/ AcquireTake(t)
        \/ \E ptr \in 1 .. PoolSize : ReleaseLock(t, ptr)
        \/ ReleasePush(t)
        \/ Return(t)

SpecPool == Init /\ [][NextPool]_vars

\* The entries on the free list.
FreeEntries ==
    {order_pool.available[k] : k \in 1 .. Len(order_pool.available)}

\* The entries some caller holds.
HeldEntries == UNION {holding[t] : t \in Clients}

\* Every entry is either once on the free list or held by one caller.
PoolSound ==
    /\ \A j, k \in 1 .. Len(order_pool.available) :
          j # k => order_pool.available[j] # order_pool.available[k]
    /\ \A t, u \in Clients : t # u => holding[t] \cap holding[u] = {}
    /\ FreeEntries \cap HeldEntries = {}
    /\ FreeEntries \cup HeldEntries = 1 .. PoolSize
    /\ Len(order_pool.available) + Cardinality(HeldEntries) = PoolSize

\* C36: with callers that release only entries they hold, every entry of
\* the pool stays either once on the free list or held by one caller, and
\* acquire returns the null pointer exactly when the free list is empty
\* and otherwise an entry that was free and held by nobody.
C36_PoolExclusive ==
    [][/\ PoolSound'
       /\ \A t \in Clients :
             (pc[t] = "p_acquire" /\ pc'[t] = "done")
                 => /\ resp'[t].ptr = 0 <=> FreeEntries = {}
                    /\ resp'[t].ptr # 0
                          => /\ resp'[t].ptr \in FreeEntries
                             /\ resp'[t].ptr \notin HeldEntries
                             /\ resp'[t].ptr \in holding'[t]
                             /\ resp'[t].ptr \notin FreeEntries']_vars

\* The callers hold all the entries between them, and an acquire has just
\* returned the null pointer from the empty pool.
C36_Witness ==
    /\ pc["c1"] = "done"
    /\ req["c1"].op = "acquire"
    /\ resp["c1"].ptr = 0
    /\ order_pool.available = << >>
    /\ holding["c1"] = {2}
    /\ holding["c2"] = {1, 3}


====
